---- MODULE Spec2Model ----
(***************************************************************************)
(* A model of the vpkg subsystem of vandor-cli: the spec parser, the       *)
(* registry client, the installer and the installed-package store.         *)
(*                                                                         *)
(* Go strings are sequences of tokens.  A token is one separator character *)
(* ("/", "@", ".") or a run of characters that holds no separator, so that *)
(* strings.Split, strings.Contains, strings.HasSuffix and filepath.Join    *)
(* act on token sequences exactly as they act on the characters.           *)
(*                                                                         *)
(* The filesystem is a function from absolute paths to nodes.  An absolute *)
(* path is the sequence of its components (a cleaned path), a component is *)
(* a token sequence.  The root directory <<>> always exists.               *)
(***************************************************************************)
EXTENDS Integers, Sequences, FiniteSets, TLC

VARIABLES
    fs,        \* the filesystem: [absolute path -> node]
    now,       \* the wall clock, in seconds (time.Now)
    nOps,      \* number of top-level operations run so far
    registry,  \* the remote registry index: the ordered list of repositories
    last       \* the latest top-level call: its arguments and what it returned

vars == <<fs, now, nOps, registry, last>>

----------------------------------------------------------------------------
(* Bounds of the model. *)

\* Top-level operations in one behaviour.
MaxOps == 2

\* The clock runs from 0 to MaxTime.
MaxTime == 1

\* Length of the strings handed to parsePackageSpec in SpecParse.
MaxSpecLen == 5

\* Repositories in the registry index in SpecRegistry.
MaxRepos == 3

\* Depth of the deepest working directory in SpecLocator.
MaxDirDepth == 4

\* Levels of directories beneath the templates directory tw of repository 1.
MaxTreeDepth == 5

----------------------------------------------------------------------------
(* Strings. *)

Empty == <<>>

\* strings.Contains(s, sep) for a one-character separator.
Contains(s, sep) == \E i \in 1..Len(s) : s[i] = sep

RECURSIVE IndexFrom(_, _, _)
\* Index of the first sep in s at or after position i, 0 if there is none.
IndexFrom(s, sep, i) ==
    IF i > Len(s) THEN 0 ELSE IF s[i] = sep THEN i ELSE IndexFrom(s, sep, i + 1)

\* strings.Index(s, sep), counted from 1; 0 if there is none.
IndexOf(s, sep) == IndexFrom(s, sep, 1)

RECURSIVE Split(_, _)
\* strings.Split(s, sep): the substrings between the separators, all of them.
Split(s, sep) ==
    LET i == IndexOf(s, sep) IN
    IF i = 0 THEN <<s>>
    ELSE <<SubSeq(s, 1, i-1)>> \o Split(SubSeq(s, i+1, Len(s)), sep)

\* strings.HasSuffix and strings.TrimSuffix.
HasSuffix(s, suf) ==
    Len(s) >= Len(suf) /\ SubSeq(s, Len(s) - Len(suf) + 1, Len(s)) = suf

TrimSuffix(s, suf) ==
    IF HasSuffix(s, suf) THEN SubSeq(s, 1, Len(s) - Len(suf)) ELSE s

IsPrefix(p, q) == Len(p) <= Len(q) /\ SubSeq(q, 1, Len(p)) = p

----------------------------------------------------------------------------
(* The spec parser. *)

\* parsePackageSpec: strings.Split on "@", then parts[0] and parts[1].
parsePackageSpec(spec) ==
    IF Contains(spec, "@")
    THEN LET parts == Split(spec, "@") IN <<parts[1], parts[2]>>
    ELSE <<spec, Empty>>

----------------------------------------------------------------------------
(* Paths. *)

Slash == <<"/">>

\* A component of a cleaned path: not empty and not ".".  (No input of the
\* model holds "..", which filepath.Clean would resolve.)
IsComponent(c) == c # Empty /\ c # <<".">>

\* The components of a path string: what the OS and filepath.Clean see.
Components(s) == SelectSeq(Split(s, "/"), IsComponent)

\* filepath.IsAbs
IsAbs(s) == s # Empty /\ s[1] = "/"

\* The absolute path an OS call resolves the string s to, in the working
\* directory cwd (an absolute path).
Resolve(cwd, s) == IF IsAbs(s) THEN Components(s) ELSE cwd \o Components(s)

Parent(p) == SubSeq(p, 1, Len(p) - 1)

Base(p) == p[Len(p)]

Prefixes(p) == { SubSeq(p, 1, k) : k \in 1..Len(p) }

----------------------------------------------------------------------------
(* The filesystem. *)

\* A node: a directory, or a file with what was written to it.  form says what
\* the bytes are: "marker" (a project marker file), "rendered" (a template
\* executed against the context recorded in name, version and path), "partial"
\* (a file created whose template execution failed), "copy" (bytes copied
\* through), "meta" (the marshalled InstalledPackage).
Node(form, content, name, version, path, type, at) ==
    [form |-> form, content |-> content, name |-> name, version |-> version,
     path |-> path, type |-> type, at |-> at]

Dir == Node("dir", "", Empty, Empty, Empty, "", 0)

Exists(f, p) == p = <<>> \/ p \in DOMAIN f

IsDir(f, p) == p = <<>> \/ (p \in DOMAIN f /\ f[p].form = "dir")

IsFile(f, p) == p \in DOMAIN f /\ f[p].form # "dir"

\* Every path of f at or beneath p.
Under(f, p) == { q \in DOMAIN f : IsPrefix(p, q) }

\* os.Stat: "ok", or the error.  A path through a regular file is ENOTDIR,
\* which os.IsNotExist does not count as "not exist".
Stat(f, p) ==
    IF Exists(f, p) THEN "ok"
    ELSE IF \E q \in Prefixes(p) : IsFile(f, q) THEN "ENOTDIR"
    ELSE "ENOENT"

\* os.MkdirAll(p): every missing directory on the way to p is created; it
\* fails when a regular file is in the way.
MkdirAll(f, p) ==
    IF \E q \in Prefixes(p) : IsFile(f, q)
    THEN [ok |-> FALSE, fs |-> f]
    ELSE [ok |-> TRUE,
          fs |-> [q \in DOMAIN f \cup Prefixes(p) |->
                     IF q \in DOMAIN f THEN f[q] ELSE Dir]]

\* os.WriteFile and os.Create: the parent must be a directory and the path
\* itself must not be one; the file is created or truncated.
WriteFile(f, p, node) ==
    IF p = <<>> \/ ~IsDir(f, Parent(p)) \/ IsDir(f, p)
    THEN [ok |-> FALSE, fs |-> f]
    ELSE [ok |-> TRUE,
          fs |-> [q \in DOMAIN f \cup {p} |-> IF q = p THEN node ELSE f[q]]]

\* os.RemoveAll(p): p and everything beneath it; no error when p is absent, an
\* error when the path leads through a regular file.
RemoveAll(f, p) ==
    IF Stat(f, p) = "ENOTDIR" THEN [ok |-> FALSE, fs |-> f]
    ELSE [ok |-> TRUE, fs |-> [q \in DOMAIN f \ Under(f, p) |-> f[q]]]

\* A rename that carries along only what lies directly in the directory.
RenameShallow(f, old, new) ==
    IF ~Exists(f, old) \/ old = <<>> \/ new = <<>> \/ IsDir(f, new)
       \/ ~IsDir(f, Parent(new))
    THEN [ok |-> FALSE, fs |-> f]
    ELSE LET near  == { q \in Under(f, old) : Len(q) <= Len(old) + 1 }
             moved == { new \o SubSeq(q, Len(old) + 1, Len(q)) : q \in near }
             kept  == DOMAIN f \ Under(f, old)
         IN  [ok |-> TRUE,
              fs |-> [q \in kept \cup moved |->
                         IF q \in moved
                         THEN f[old \o SubSeq(q, Len(new) + 1, Len(q))]
                         ELSE f[q]]]

\* os.Rename(old, new) as Go does it on Unix: refused with EEXIST when new is
\* an existing directory, and by the kernel when old is missing, when new lies
\* beneath old, when new's parent is no directory, or when a directory would
\* replace a regular file.  It is one atomic step.
Rename(f, old, new) ==
    IF \/ ~Exists(f, old)
       \/ old = <<>>
       \/ IsDir(f, new)
       \/ (IsPrefix(old, new) /\ new # old)
       \/ new = <<>>
       \/ ~IsDir(f, Parent(new))
       \/ (IsDir(f, old) /\ IsFile(f, new))
    THEN [ok |-> FALSE, fs |-> f]
    ELSE IF new = old THEN [ok |-> TRUE, fs |-> f]
    ELSE LET moved == { new \o SubSeq(q, Len(old) + 1, Len(q)) : q \in Under(f, old) }
             kept  == DOMAIN f \ Under(f, old)
         IN  [ok |-> TRUE,
              fs |-> [q \in kept \cup moved |->
                         IF q \in moved
                         THEN f[old \o SubSeq(q, Len(new) + 1, Len(q))]
                         ELSE f[q]]]


----------------------------------------------------------------------------
(* The registry and the repository hosts. *)

\* A Package of a repository manifest.  Title, Description and Dependencies are
\* carried along unread by everything modelled here and are left out.
Package(name, type, templates, destination, version, tags) ==
    [Name |-> name, Type |-> type, Templates |-> templates,
     Destination |-> destination, Version |-> version, Tags |-> tags]

NameP == <<"n", "/", "p">>
NameQ == <<"n", "/", "q">>
NameD == <<"d", "/", "p">>
\* A name without a namespace.
NameS == <<"solo">>
\* A package that declares a destination and whose templates differ in their
\* template extension only, one of them a template of meta.yaml.
NameC == <<"c", "/", "p">>

VpkgDir == <<"internal", "/", "vpkg">>

\* The manifest URLs of three repositories.  The first is served from
\* github.com, the others from raw.githubusercontent.com (the form the code
\* documents).
URL1 == <<"https:", "/", "/", "github.com", "/", "o1", "/", "r1", "/", "raw",
          "/", "main", "/", "meta.yaml">>
URL2 == <<"https:", "/", "/", "raw.githubusercontent.com", "/", "o2", "/", "r2",
          "/", "main", "/", "meta.yaml">>
URL3 == <<"https:", "/", "/", "raw.githubusercontent.com", "/", "o3", "/", "r3",
          "/", "main", "/", "meta.yaml">>

URLs == {URL1, URL2, URL3}

\* The manifest each repository serves: its ordered package list.
Manifest == [url \in URLs |->
    IF url = URL1 THEN
        << Package(NameP, "fx-module", <<"tp">>, Empty, <<"1">>, {"cache"}),
           Package(NameQ, "cli-command", <<"tq">>, <<"lib">>, <<"1">>, {"db", "cli"}),
           Package(NameD, "fx-module", <<"td">>, Empty, <<"1">>, {"cache", "db"}),
           Package(NameC, "fx-module", <<"tc">>, <<"lib">>, <<"1">>, {}) >>
    ELSE IF url = URL2 THEN
        << Package(NameP, "fx-module", <<"tp">>, Empty, <<"2">>, {"cache"}),
           Package(NameD, "cli-command", <<"td">>, Empty, <<"2">>, {}),
           Package(NameS, "fx-module", <<"tp">>, Empty, <<"2">>, {}) >>
    ELSE
        << Package(NameD, "fx-module", <<"td">>, Empty, <<"3">>, {"db"}),
           Package(NameD, "fx-module", <<"td">>, Empty, <<"4">>, {"db"}) >> ]

\* The files each repository serves, by path beneath the repository root, with
\* an identifier of their bytes.
RemoteFiles == [url \in URLs |->
    IF url = URL1 THEN
        ( <<"tp", "/", "main", ".", "go", ".", "tmpl">> :> "r1-p-main" ) @@
        ( <<"tp", "/", "sub", "/", "b", ".", "go", ".", "templ">> :> "r1-p-b" ) @@
        ( <<"tp", "/", "logo", ".", "png">> :> "r1-p-logo" ) @@
        ( <<"tq", "/", "main", ".", "go", ".", "tmpl">> :> "r1-q-main" ) @@
        ( <<"tq", "/", "q", ".", "go", ".", "gotmpl">> :> "r1-q-q" ) @@
        ( <<"tq", "/", "z", ".", "go", ".", "tmpl">> :> "r1-q-z" ) @@
        ( <<"ts", "/", "logo", ".", "png">> :> "r1-s-logo" ) @@
        ( <<"tc", "/", "a", ".", "go", ".", "tmpl">> :> "r1-c-a1" ) @@
        ( <<"tc", "/", "a", ".", "go", ".", "templ">> :> "r1-c-a2" ) @@
        ( <<"tc", "/", "meta", ".", "yaml", ".", "tmpl">> :> "r1-c-meta" )
    ELSE IF url = URL2 THEN
        ( <<"tp", "/", "main", ".", "go", ".", "tmpl">> :> "r2-p-main" ) @@
        ( <<"td", "/", "main", ".", "go", ".", "tmpl">> :> "r2-d-main" )
    ELSE
        ( <<"td", "/", "x", ".", "go", ".", "tmpl">> :> "r3-d-x" ) ]

\* Template bytes text/template cannot parse, and bytes whose execution fails
\* (a field the context does not have).
BadParse == {"r2-d-main"}
BadExec == {"r1-q-q"}

Item(name, type) == [Name |-> name, Type |-> type]

\* The directory k levels beneath tw, along the chain tw/d/d/...
ChainPath(k) ==
    [i \in 1..(2 * k + 1) |-> IF i = 1 THEN "tw" ELSE IF i % 2 = 0 THEN "/" ELSE "d"]

\* A deep tree: tw and MaxTreeDepth levels of directories d beneath it, each
\* level holding a template, and each but the last the next d and a directory
\* e with one template.
DeepDirs ==
    LET chain == { ChainPath(k) : k \in 0..MaxTreeDepth }
        sides == { ChainPath(k) \o <<"/", "e">> : k \in 0..(MaxTreeDepth - 1) }
    IN  [dir \in chain \cup sides |->
            IF dir \in sides THEN << Item(<<"g", ".", "go", ".", "tmpl">>, "file") >>
            ELSE IF dir = ChainPath(MaxTreeDepth)
            THEN << Item(<<"f", ".", "go", ".", "tmpl">>, "file") >>
            ELSE << Item(<<"f", ".", "go", ".", "tmpl">>, "file"),
                    Item(<<"d">>, "dir"), Item(<<"e">>, "dir") >>]

\* What the hosting service's directory-listing API answers for a directory of
\* a repository, in the order it lists the entries.
RemoteDirs == [url \in URLs |->
    IF url = URL1 THEN
        ( <<"tp">> :> << Item(<<"logo", ".", "png">>, "file"),
                         Item(<<"main", ".", "go", ".", "tmpl">>, "file"),
                         Item(<<"sub">>, "dir") >> ) @@
        ( <<"tp", "/", "sub">> :> << Item(<<"b", ".", "go", ".", "templ">>, "file") >> ) @@
        ( <<"tq">> :> << Item(<<"main", ".", "go", ".", "tmpl">>, "file"),
                         Item(<<"q", ".", "go", ".", "gotmpl">>, "file"),
                         Item(<<"z", ".", "go", ".", "tmpl">>, "file") >> ) @@
        ( <<"ts">> :> << Item(<<"logo", ".", "png">>, "file") >> ) @@
        ( <<"tc">> :> << Item(<<"a", ".", "go", ".", "tmpl">>, "file"),
                         Item(<<"a", ".", "go", ".", "templ">>, "file"),
                         Item(<<"meta", ".", "yaml", ".", "tmpl">>, "file") >> ) @@
        DeepDirs
    ELSE IF url = URL2 THEN
        ( <<"tp">> :> << Item(<<"main", ".", "go", ".", "tmpl">>, "file") >> ) @@
        ( <<"td">> :> << Item(<<"main", ".", "go", ".", "tmpl">>, "file") >> )
    ELSE
        ( <<"td">> :> << Item(<<"x", ".", "go", ".", "tmpl">>, "file") >> ) ]

\* strings.Split(url, "/") of each manifest URL.
UrlParts == [url \in URLs |-> Split(url, "/")]

\* What one call sees of the network and the machine beyond the files
\* themselves: which requests fail and which system calls fail.
\*   regFail   the registry index request fails
\*   repoFail  the repositories (manifest URLs) whose manifest request fails
\*   modFail   "go list -m" fails (no module detected)
\*   apiFail   the directories whose listing request the API answers with an
\*             error
\*   probeFail the existence probes of the fallback discovery all fail
\*   fetchFail the index, in discovery order, of the template whose content
\*             request fails (0: none)
\*   writeFail the index, in discovery order, of the template whose output
\*             file the system refuses to create or write (0: none)
\*   osFail    the system call that fails although the filesystem would allow
\*             it (permissions, a full disk): "none", "getwd", "mkdir", "meta",
\*             "rename", "remove"
Env(regFail, repoFail, modFail, apiFail, probeFail, fetchFail, writeFail, osFail) ==
    [regFail |-> regFail, repoFail |-> repoFail, modFail |-> modFail,
     apiFail |-> apiFail, probeFail |-> probeFail, fetchFail |-> fetchFail,
     writeFail |-> writeFail, osFail |-> osFail]

NoFault == Env(FALSE, {}, FALSE, {}, FALSE, 0, 0, "none")

\* FetchRegistry: the repositories of the index, or an error.
FetchRegistry(reg, env) ==
    IF env.regFail THEN [ok |-> FALSE, Repositories |-> <<>>]
    ELSE [ok |-> TRUE, Repositories |-> reg]

\* FetchRepositoryMeta: the manifest behind a manifest URL, or an error.
FetchRepositoryMeta(metaURL, env) ==
    IF metaURL \in env.repoFail \/ metaURL \notin URLs
    THEN [ok |-> FALSE, Packages |-> <<>>]
    ELSE [ok |-> TRUE, Packages |-> Manifest[metaURL]]

NoPackage == Package(Empty, "", Empty, Empty, Empty, {})

\* The result of FindPackage: the package with the repository it was found in
\* (PackageWithRepo), or the not-found error.
Found(pkg, url, idx) ==
    [err |-> "none", Package |-> pkg, MetaURL |-> url, repo |-> idx]
NotFound == [err |-> "notfound", Package |-> NoPackage, MetaURL |-> Empty, repo |-> 0]
RegistryError == [err |-> "registry", Package |-> NoPackage, MetaURL |-> Empty, repo |-> 0]

\* The first package named name in a package list, 0 if there is none.
FirstNamed(pkgs, name) ==
    IF \E k \in 1..Len(pkgs) : pkgs[k].Name = name
    THEN CHOOSE k \in 1..Len(pkgs) :
             pkgs[k].Name = name /\ \A j \in 1..(k-1) : pkgs[j].Name # name
    ELSE 0

RECURSIVE FindFromAborting(_, _, _, _)
\* A repository loop that gives up at the first repository that fails.
FindFromAborting(repos, i, name, env) ==
    IF i > Len(repos) THEN NotFound
    ELSE LET meta == FetchRepositoryMeta(repos[i], env)
             k    == FirstNamed(meta.Packages, name)
         IN  IF ~meta.ok THEN NotFound
             ELSE IF k # 0 THEN Found(meta.Packages[k], repos[i], i)
             ELSE FindFromAborting(repos, i + 1, name, env)

RECURSIVE FindFromLast(_, _, _, _)
\* A repository loop in which a later repository shadows an earlier one.
FindFromLast(repos, i, name, env) ==
    IF i > Len(repos) THEN NotFound
    ELSE LET meta  == FetchRepositoryMeta(repos[i], env)
             k     == FirstNamed(meta.Packages, name)
             later == FindFromLast(repos, i + 1, name, env)
         IN  IF later.err = "none" THEN later
             ELSE IF meta.ok /\ k # 0 THEN Found(meta.Packages[k], repos[i], i)
             ELSE NotFound

RECURSIVE FindFrom(_, _, _, _)
\* The loop of FindPackage from repository i on: a repository whose manifest
\* request fails is skipped, the first match is returned.
FindFrom(repos, i, name, env) ==
    IF i > Len(repos) THEN NotFound
    ELSE LET meta == FetchRepositoryMeta(repos[i], env)
             k    == FirstNamed(meta.Packages, name)
         IN  IF ~meta.ok THEN FindFrom(repos, i + 1, name, env)
             ELSE IF k # 0 THEN Found(meta.Packages[k], repos[i], i)
             ELSE FindFrom(repos, i + 1, name, env)

\* RegistryClient.FindPackage
FindPackage(reg, name, env) ==
    LET r == FetchRegistry(reg, env) IN
    IF ~r.ok THEN RegistryError ELSE FindFrom(r.Repositories, 1, name, env)

\* DefaultRegistryURL, the URL of the registry index.
DefaultRegistryURL ==
    <<"https:", "/", "/", "raw.githubusercontent.com", "/", "alfariiizi", "/",
      "vpkg-registry", "/", "main", "/", "registry.yaml">>

RECURSIVE ManifestRequestsExhaustive(_, _, _, _)
\* A loop that leaves only the package loop at a match and goes on to the
\* next repository.
ManifestRequestsExhaustive(repos, i, name, env) ==
    IF i > Len(repos) THEN <<>>
    ELSE <<repos[i]>> \o ManifestRequestsExhaustive(repos, i + 1, name, env)

RECURSIVE ManifestRequestsFrom(_, _, _, _)
\* The URLs the loop of FindPackage sends a manifest request to from
\* repository i on, in the order of the requests: one per repository entry,
\* none after the entry the package is found in.
ManifestRequestsFrom(repos, i, name, env) ==
    IF i > Len(repos) THEN <<>>
    ELSE LET meta == FetchRepositoryMeta(repos[i], env)
             k    == FirstNamed(meta.Packages, name)
         IN  IF ~meta.ok THEN <<repos[i]>> \o ManifestRequestsFrom(repos, i + 1, name, env)
             ELSE IF k # 0 THEN <<repos[i]>>
             ELSE <<repos[i]>> \o ManifestRequestsFrom(repos, i + 1, name, env)

\* The URLs FindPackage sends a GET request to, in the order of the requests.
FindPackageRequests(reg, name, env) ==
    LET r == FetchRegistry(reg, env) IN
    IF ~r.ok THEN <<DefaultRegistryURL>>
    ELSE <<DefaultRegistryURL>> \o ManifestRequestsFrom(r.Repositories, 1, name, env)

\* ListOptions: a type (empty: any) and a list of tags (empty: any).
ListOptions(type, tags) == [Type |-> type, Tags |-> tags]

RECURSIVE Aggregate(_, _, _)
\* The first loop of ListPackages from repository i on: the packages of every
\* repository whose manifest request succeeds, in order.
Aggregate(repos, i, env) ==
    IF i > Len(repos) THEN <<>>
    ELSE LET meta == FetchRepositoryMeta(repos[i], env) IN
         IF ~meta.ok THEN Aggregate(repos, i + 1, env)
         ELSE meta.Packages \o Aggregate(repos, i + 1, env)

\* A filter that asks for every requested tag.
KeepsAllTags(opts, pkg) ==
    /\ (opts.Type = "" \/ pkg.Type = opts.Type)
    /\ \A k \in 1..Len(opts.Tags) : opts.Tags[k] \in pkg.Tags

\* The filter of ListPackages: the type matches exactly and the package has
\* one of the requested tags.
Keeps(opts, pkg) ==
    /\ (opts.Type = "" \/ pkg.Type = opts.Type)
    /\ (Len(opts.Tags) = 0 \/ \E k \in 1..Len(opts.Tags) : opts.Tags[k] \in pkg.Tags)

\* RegistryClient.ListPackages
ListPackages(reg, opts, env) ==
    LET r == FetchRegistry(reg, env)
        Keep(pkg) == Keeps(opts, pkg)
    IN  IF ~r.ok THEN [err |-> "registry", pkgs |-> <<>>]
        ELSE [err |-> "none",
              pkgs |-> SelectSeq(Aggregate(r.Repositories, 1, env), Keep)]

----------------------------------------------------------------------------
(* Template discovery. *)

TemplateExtensions == << <<".", "tmpl">>, <<".", "templ">>, <<".", "gotmpl">> >>

\* isTemplateFile
isTemplateFile(filePath) ==
    \E k \in 1..Len(TemplateExtensions) : HasSuffix(filePath, TemplateExtensions[k])

\* removeTemplateExtension: the first extension of the list that is a suffix
\* is trimmed.
removeTemplateExtension(templatePath) ==
    IF isTemplateFile(templatePath)
    THEN LET k == CHOOSE i \in 1..Len(TemplateExtensions) :
                      /\ HasSuffix(templatePath, TemplateExtensions[i])
                      /\ \A j \in 1..(i-1) : ~HasSuffix(templatePath, TemplateExtensions[j])
         IN  TrimSuffix(templatePath, TemplateExtensions[k])
    ELSE templatePath

\* The tokens of a URL that hold the characters "github.com".
GithubComTokens == {"github.com", "api.github.com"}

\* maxDepth of fetchGitHubDirectoryContents.
MaxDepth == 3

\* The listing API's answer for directory dir of the repository owner/repo.
ApiListing(owner, repo, dir, env) ==
    LET hosts == { u \in URLs : UrlParts[u][4] = owner /\ UrlParts[u][5] = repo }
    IN  IF dir \in env.apiFail \/ hosts = {} THEN [ok |-> FALSE, items |-> <<>>]
        ELSE LET u == CHOOSE h \in hosts : TRUE IN
             IF dir \in DOMAIN RemoteDirs[u]
             THEN [ok |-> TRUE, items |-> RemoteDirs[u][dir]]
             ELSE [ok |-> FALSE, items |-> <<>>]

RECURSIVE fetchGitHubDirectoryContentsWithDepth(_, _, _, _, _, _, _)
RECURSIVE WalkItems(_, _, _, _, _, _, _, _, _)
RECURSIVE WalkItemsSameDepth(_, _, _, _, _, _, _, _, _)
\* A loop that goes into a subdirectory without counting the level.
WalkItemsSameDepth(items, k, owner, repo, dir, pathPrefix, currentDepth, maxDepth, env) ==
    IF k > Len(items) THEN [files |-> <<>>, failed |-> 0, requests |-> <<>>]
    ELSE LET item == items[k]
             itemPath == IF pathPrefix = Empty THEN item.Name
                         ELSE pathPrefix \o Slash \o item.Name
             sub  == fetchGitHubDirectoryContentsWithDepth(
                         owner, repo, dir \o Slash \o item.Name, itemPath,
                         currentDepth, maxDepth, env)
             here ==
                 IF item.Type = "file"
                 THEN [files |-> IF isTemplateFile(item.Name) THEN <<itemPath>> ELSE <<>>,
                       failed |-> 0, requests |-> <<>>]
                 ELSE IF item.Type = "dir" /\ currentDepth < maxDepth
                 THEN [files |-> IF sub.ok THEN sub.files ELSE <<>>, failed |-> sub.failed,
                       requests |-> sub.requests]
                 ELSE [files |-> <<>>, failed |-> 0, requests |-> <<>>]
             rest == WalkItemsSameDepth(items, k + 1, owner, repo, dir, pathPrefix,
                                        currentDepth, maxDepth, env)
         IN  [files |-> here.files \o rest.files, failed |-> here.failed + rest.failed,
              requests |-> here.requests \o rest.requests]

\* The loop over the items of one listing, from item k on: the template files
\* found, the number of listing requests beneath that failed, and the
\* directories a listing was requested for, in the order of the requests.
WalkItems(items, k, owner, repo, dir, pathPrefix, currentDepth, maxDepth, env) ==
    IF k > Len(items) THEN [files |-> <<>>, failed |-> 0, requests |-> <<>>]
    ELSE LET item == items[k]
             itemPath == IF pathPrefix = Empty THEN item.Name
                         ELSE pathPrefix \o Slash \o item.Name
             sub  == fetchGitHubDirectoryContentsWithDepth(
                         owner, repo, dir \o Slash \o item.Name, itemPath,
                         currentDepth + 1, maxDepth, env)
             here ==
                 IF item.Type = "file"
                 THEN [files |-> IF isTemplateFile(item.Name) THEN <<itemPath>> ELSE <<>>,
                       failed |-> 0, requests |-> <<>>]
                 ELSE IF item.Type = "dir" /\ currentDepth < maxDepth
                 THEN [files |-> IF sub.ok THEN sub.files ELSE <<>>, failed |-> sub.failed,
                       requests |-> sub.requests]
                 ELSE [files |-> <<>>, failed |-> 0, requests |-> <<>>]
             rest == WalkItems(items, k + 1, owner, repo, dir, pathPrefix,
                               currentDepth, maxDepth, env)
         IN  [files |-> here.files \o rest.files, failed |-> here.failed + rest.failed,
              requests |-> here.requests \o rest.requests]

\* fetchGitHubDirectoryContentsWithDepth: the template files of a directory and
\* of its subdirectories, a failing subdirectory skipped.  failed counts the
\* listing requests that ended in an error, requests lists the directories
\* asked for.
fetchGitHubDirectoryContentsWithDepth(owner, repo, dir, pathPrefix, currentDepth, maxDepth, env) ==
    IF currentDepth > maxDepth
    THEN [ok |-> TRUE, files |-> <<>>, failed |-> 0, requests |-> <<>>]
    ELSE LET resp == ApiListing(owner, repo, dir, env)
             walk == WalkItems(resp.items, 1, owner, repo, dir, pathPrefix,
                               currentDepth, maxDepth, env)
         IN  IF ~resp.ok
             THEN [ok |-> FALSE, files |-> <<>>, failed |-> 1, requests |-> <<dir>>]
             ELSE [ok |-> TRUE, files |-> walk.files, failed |-> walk.failed,
                   requests |-> <<dir>> \o walk.requests]

\* discoverViaGitHubAPI
discoverViaGitHubAPI(found, templatesDir, env) ==
    LET repoURL == found.MetaURL
        parts   == Split(repoURL, "/")
    IN  IF ~(\E i \in 1..Len(repoURL) : repoURL[i] \in GithubComTokens)
        THEN [ok |-> FALSE, files |-> <<>>, failed |-> 0, requests |-> <<>>]
        ELSE IF Len(parts) < 5
        THEN [ok |-> FALSE, files |-> <<>>, failed |-> 0, requests |-> <<>>]
        ELSE fetchGitHubDirectoryContentsWithDepth(parts[4], parts[5], templatesDir,
                                                   Empty, 0, MaxDepth, env)

\* The candidate paths of the fallback, for a package whose short name is
\* pkgName.
Patterns(pkgName) ==
    << <<"README", ".", "md">>,
       <<"main", ".", "go">>,
       pkgName \o <<".", "go">>,
       Split(pkgName, "-")[1] \o <<".", "go">>,
       <<"cmd", "/", "main", ".", "go">>,
       <<"internal", "/", "handler", ".", "go">>,
       <<"pkg", "/", "service", ".", "go">>,
       <<"somDir", "/", "test", ".", "go">>,
       <<"src", "/", "main", ".", "go">>,
       <<"cmd", "/", "server", "/", "main", ".", "go">>,
       <<"internal", "/", "pkg", "/", "handler", ".", "go">>,
       <<"pkg", "/", "internal", "/", "service", ".", "go">>,
       <<"src", "/", "internal", "/", "main", ".", "go">>,
       <<"cmd", "/", "cli", "/", "main", ".", "go">>,
       <<"cmd", "/", "server", "/", "internal", "/", "main", ".", "go">>,
       <<"internal", "/", "pkg", "/", "handler", "/", "service", ".", "go">>,
       <<"pkg", "/", "internal", "/", "service", "/", "handler", ".", "go">> >>

\* tryTemplateFile: the probe of one candidate answers 200.
tryTemplateFile(metaURL, templatesDir, pattern, env) ==
    /\ ~env.probeFail
    /\ metaURL \in URLs
    /\ (templatesDir \o Slash \o pattern) \in DOMAIN RemoteFiles[metaURL]

\* discoverViaOptimizedPatterns: every candidate with every extension, in the
\* order of the two loops, kept when its probe succeeds.  probes counts the
\* probes sent.
discoverViaOptimizedPatterns(found, templatesDir, env) ==
    LET parts    == Split(found.Package.Name, "/")
        pkgName  == parts[Len(parts)]
        patterns == Patterns(pkgName)
        nExt     == Len(TemplateExtensions)
        cands    == [i \in 1..(Len(patterns) * nExt) |->
                        patterns[((i - 1) \div nExt) + 1]
                            \o TemplateExtensions[((i - 1) % nExt) + 1]]
        Hit(c)   == tryTemplateFile(found.MetaURL, templatesDir, c, env)
        files    == SelectSeq(cands, Hit)
    IN  IF Len(files) = 0 THEN [ok |-> FALSE, files |-> <<>>, probes |-> Len(cands)]
        ELSE [ok |-> TRUE, files |-> files, probes |-> Len(cands)]

\* What DiscoverTemplateFiles returns: the files or an error, with the
\* strategy the files come from, the number of listing requests that failed,
\* the number of probes sent and the directories a listing was requested for.
Discovered(ok, files, strategy, failed, probes, listed) ==
    [ok |-> ok, files |-> files, strategy |-> strategy, failed |-> failed,
     probes |-> probes, listed |-> listed]

\* A discovery that probes first and asks the listing API only when the
\* probes find nothing.
DiscoverPatternsFirst(found, templatesDir, env) ==
    LET api == discoverViaGitHubAPI(found, templatesDir, env)
        pat == discoverViaOptimizedPatterns(found, templatesDir, env)
    IN  IF pat.ok /\ Len(pat.files) > 0
        THEN Discovered(TRUE, pat.files, "patterns", 0, pat.probes, <<>>)
        ELSE IF api.ok /\ Len(api.files) > 0
        THEN Discovered(TRUE, api.files, "api", api.failed, pat.probes, api.requests)
        ELSE Discovered(FALSE, <<>>, "none", api.failed, pat.probes, api.requests)

\* RegistryClient.DiscoverTemplateFiles
DiscoverTemplateFiles(found, templatesDir, env) ==
    LET api == discoverViaGitHubAPI(found, templatesDir, env)
        pat == discoverViaOptimizedPatterns(found, templatesDir, env)
    IN  IF api.ok /\ Len(api.files) > 0
        THEN Discovered(TRUE, api.files, "api", api.failed, 0, api.requests)
        ELSE IF pat.ok /\ Len(pat.files) > 0
        THEN Discovered(TRUE, pat.files, "patterns", api.failed, pat.probes, api.requests)
        ELSE Discovered(FALSE, <<>>, "none", api.failed, pat.probes, api.requests)

\* FetchPackageFile: the bytes of a file of the package's repository, or an
\* error.  k is the position of the file in this install's discovery order.
FetchPackageFile(found, filePath, k, env) ==
    IF env.fetchFail = k \/ found.MetaURL \notin URLs
       \/ filePath \notin DOMAIN RemoteFiles[found.MetaURL]
    THEN [ok |-> FALSE, content |-> ""]
    ELSE [ok |-> TRUE, content |-> RemoteFiles[found.MetaURL][filePath]]


----------------------------------------------------------------------------
(* The installer. *)

\* InstallOptions.  Registry is read where the client is built, not here.
InstallOptions(dest, force, dryRun, version) ==
    [Dest |-> dest, Force |-> force, DryRun |-> dryRun, Version |-> version]

MetaYaml == <<"meta", ".", "yaml">>
GoMod == <<"go", ".", "mod">>
VandorConfig == <<"vandor-config", ".", "yaml">>

RECURSIVE WalkUpFarthest(_, _)
\* A loop that prefers a marker higher up to one nearer by.
WalkUpFarthest(f, dir) ==
    LET here  == Stat(f, dir \o <<VandorConfig>>) = "ok" \/ Stat(f, dir \o <<GoMod>>) = "ok"
        above == WalkUpFarthest(f, Parent(dir))
    IN  IF dir = <<>>
        THEN IF here THEN [ok |-> TRUE, err |-> "none", dir |-> dir, steps |-> 1]
             ELSE [ok |-> FALSE, err |-> "notfound", dir |-> <<>>, steps |-> 1]
        ELSE IF above.ok THEN [above EXCEPT !.steps = @ + 1]
        ELSE IF here THEN [ok |-> TRUE, err |-> "none", dir |-> dir, steps |-> above.steps + 1]
        ELSE [above EXCEPT !.steps = @ + 1]

RECURSIVE WalkUp(_, _)
\* The loop of findProjectRoot: the nearest directory, from dir upwards, that
\* holds a marker file.  steps counts the directories looked at.
WalkUp(f, dir) ==
    IF Stat(f, dir \o <<VandorConfig>>) = "ok" \/ Stat(f, dir \o <<GoMod>>) = "ok"
    THEN [ok |-> TRUE, err |-> "none", dir |-> dir, steps |-> 1]
    ELSE IF dir = <<>> THEN [ok |-> FALSE, err |-> "notfound", dir |-> <<>>, steps |-> 1]
    ELSE [WalkUp(f, Parent(dir)) EXCEPT !.steps = @ + 1]

\* findProjectRoot
findProjectRoot(f, cwd, env) ==
    IF env.osFail = "getwd" THEN [ok |-> FALSE, err |-> "getwd", dir |-> <<>>, steps |-> 0]
    ELSE WalkUp(f, cwd)

\* A check that takes only a directory for an installed package.
packageExistsAsDir(f, p) == IsDir(f, p)

\* packageExists: os.Stat does not answer "not exist".
packageExists(f, p) == Stat(f, p) # "ENOENT"

\* The template context.  Of its fields the model keeps the ones that tell two
\* renderings apart: the package name, the destination, the version of the
\* package in the registry and the time.
\* prepareTemplateContext: fails when no module is detected; the second part of
\* the name is read without a check of how many parts there are.
prepareTemplateContext(packageName, pkg, destPath, t, env) ==
    LET parts == Split(packageName, "/") IN
    IF env.modFail THEN [err |-> "module", VpkgName |-> Empty, PackagePath |-> <<>>,
                         Version |-> Empty, Time |-> 0]
    ELSE IF Len(parts) < 2 THEN [err |-> "panic", VpkgName |-> Empty,
                                 PackagePath |-> <<>>, Version |-> Empty, Time |-> 0]
    ELSE [err |-> "none", VpkgName |-> packageName, PackagePath |-> destPath,
          Version |-> pkg.Version, Time |-> t]

\* The bytes a template renders to under a context.
Rendered(content, ctx) ==
    Node("rendered", content, ctx.VpkgName, ctx.Version, ctx.PackagePath, "", ctx.Time)

\* What is left of an output file whose template execution failed.
Partial(content, ctx) ==
    Node("partial", content, ctx.VpkgName, ctx.Version, ctx.PackagePath, "", ctx.Time)

\* The bytes of a static file, copied through.
Copied(content) == Node("copy", content, Empty, Empty, Empty, "", 0)

\* The output path of a template: the destination joined with the template's
\* path, its template extension removed.
OutputPath(destPath, templatePath) ==
    destPath \o Components(removeTemplateExtension(templatePath))

\* The tail of installTemplate, once the content is fetched and the output
\* directory made: parse, create, execute or copy.
WriteTemplate(made, templatePath, outputPath, content, ctx, k, env) ==
    LET node    == IF ~isTemplateFile(templatePath) THEN Copied(content)
                   ELSE IF content \in BadExec THEN Partial(content, ctx)
                   ELSE Rendered(content, ctx)
        written == WriteFile(made.fs, outputPath, node)
    IN  IF ~made.ok THEN [ok |-> FALSE, fs |-> made.fs]
        ELSE IF isTemplateFile(templatePath) /\ content \in BadParse
        THEN [ok |-> FALSE, fs |-> made.fs]
        ELSE IF env.writeFail = k \/ ~written.ok THEN [ok |-> FALSE, fs |-> made.fs]
        ELSE IF isTemplateFile(templatePath) /\ content \in BadExec
        THEN [ok |-> FALSE, fs |-> written.fs]
        ELSE [ok |-> TRUE, fs |-> written.fs]

\* installTemplate, for the k-th discovered template.
installTemplate(f, found, templatePath, destPath, ctx, opts, k, env) ==
    LET fetched == FetchPackageFile(found, found.Package.Templates \o Slash \o templatePath,
                                    k, env)
    IN  IF ~fetched.ok THEN [ok |-> FALSE, fs |-> f]
        ELSE IF opts.DryRun THEN [ok |-> TRUE, fs |-> f]
        ELSE WriteTemplate(MkdirAll(f, Parent(OutputPath(destPath, templatePath))),
                           templatePath, OutputPath(destPath, templatePath),
                           fetched.content, ctx, k, env)

RECURSIVE InstallLoopBestEffort(_, _, _, _, _, _, _, _)
\* A loop that goes on to the next template after one has failed.
InstallLoopBestEffort(f, found, templateFiles, k, destPath, ctx, opts, env) ==
    IF k > Len(templateFiles) THEN [ok |-> TRUE, fs |-> f, done |-> k - 1, fetched |-> k - 1]
    ELSE LET r    == installTemplate(f, found, templateFiles[k], destPath, ctx, opts, k, env)
             rest == InstallLoopBestEffort(r.fs, found, templateFiles, k + 1, destPath,
                                           ctx, opts, env)
         IN  IF r.ok THEN rest
             ELSE [ok |-> FALSE, fs |-> rest.fs, done |-> k - 1, fetched |-> rest.fetched]

RECURSIVE InstallLoop(_, _, _, _, _, _, _, _)
\* The loop of Install over the discovered templates, from the k-th on: it
\* stops at the first template that fails.  done counts the templates handled
\* without an error, fetched the content requests issued (installTemplate
\* begins with one).
InstallLoop(f, found, templateFiles, k, destPath, ctx, opts, env) ==
    IF k > Len(templateFiles) THEN [ok |-> TRUE, fs |-> f, done |-> k - 1, fetched |-> k - 1]
    ELSE LET r == installTemplate(f, found, templateFiles[k], destPath, ctx, opts, k, env)
         IN  IF ~r.ok THEN [ok |-> FALSE, fs |-> r.fs, done |-> k - 1, fetched |-> k]
             ELSE InstallLoop(r.fs, found, templateFiles, k + 1, destPath, ctx, opts, env)

\* The InstalledPackage written for an install, as the bytes of its meta.yaml.
InstalledMeta(destPath, name, version, pkg, t) ==
    Node("meta", "", name, version, destPath, pkg.Type, t)

\* writeInstalledMeta
writeInstalledMeta(f, destPath, name, version, pkg, t, env) ==
    IF env.osFail = "meta" THEN [ok |-> FALSE, fs |-> f]
    ELSE WriteFile(f, destPath \o <<MetaYaml>>, InstalledMeta(destPath, name, version, pkg, t))

\* A resolution that passes over the destination the package declares.
DestPathNoDeclared(opts, pkg, name, projectRoot) ==
    LET d2 == IF opts.Dest # Empty THEN opts.Dest ELSE VpkgDir \o Slash \o name
    IN  IF IsAbs(d2) THEN Components(d2) ELSE projectRoot \o Components(d2)

\* The destination of an install, as Install resolves it.
DestPath(opts, pkg, name, projectRoot) ==
    LET d1 == IF opts.Dest # Empty THEN opts.Dest ELSE pkg.Destination
        d2 == IF d1 # Empty THEN d1 ELSE VpkgDir \o Slash \o name
    IN  IF IsAbs(d2) THEN Components(d2) ELSE projectRoot \o Components(d2)

\* What an install returns and leaves: err ("none" for success), the
\* filesystem, the output paths it reported as intended (dry run) or written,
\* the number of templates discovered, the number of content requests it
\* issued, and the name, version and destination it resolved.
Outcome(err, f, name, version, dest, n, reported, fetched) ==
    [err |-> err, fs |-> f, name |-> name, version |-> version, dest |-> dest,
     n |-> n, reported |-> reported, fetched |-> fetched]

\* The version an install records: the one pinned in the spec, else
\* options.Version.
ResolveVersion(parsed, opts) == IF parsed[2] = Empty THEN opts.Version ELSE parsed[2]

\* The destination directory of an install: what os.MkdirAll leaves, or
\* nothing in a dry run.
MakeDest(f, dest, opts, env) ==
    IF opts.DryRun THEN [ok |-> TRUE, fs |-> f]
    ELSE IF env.osFail = "mkdir" THEN [ok |-> FALSE, fs |-> f]
    ELSE MkdirAll(f, dest)

\* The end of an install, after the loop over the templates: the record of the
\* install is written unless the loop failed or the run is a dry run.
Finish(loop, files, t, name, version, pkg, dest, opts, env) ==
    LET paths == [k \in 1..loop.done |-> OutputPath(dest, files[k])]
        meta  == writeInstalledMeta(loop.fs, dest, name, version, pkg, t, env)
    IN  IF ~loop.ok THEN Outcome("template", loop.fs, name, version, dest, Len(files), paths, loop.fetched)
        ELSE IF opts.DryRun
        THEN Outcome("none", loop.fs, name, version, dest, Len(files), paths, loop.fetched)
        ELSE IF ~meta.ok
        THEN Outcome("meta", meta.fs, name, version, dest, Len(files), paths, loop.fetched)
        ELSE Outcome("none", meta.fs, name, version, dest, Len(files), paths, loop.fetched)

\* An install that makes the destination directory before it prepares the
\* template context.
InstallIntoDirFirst(f, t, found, name, version, dest, ctx, made, disc, opts, env) ==
    IF ~made.ok THEN Outcome("mkdir", made.fs, name, version, dest, 0, <<>>, 0)
    ELSE IF ctx.err # "none" THEN Outcome(ctx.err, made.fs, name, version, dest, 0, <<>>, 0)
    ELSE IF ~disc.ok \/ Len(disc.files) = 0
    THEN Outcome("discover", made.fs, name, version, dest, 0, <<>>, 0)
    ELSE Finish(InstallLoop(made.fs, found, disc.files, 1, dest, ctx, opts, env),
                disc.files, t, name, version, found.Package, dest, opts, env)

\* Install from the template context on: the destination directory, the
\* discovery, the loop.
InstallInto(f, t, found, name, version, dest, ctx, made, disc, opts, env) ==
    IF ctx.err # "none" THEN Outcome(ctx.err, f, name, version, dest, 0, <<>>, 0)
    ELSE IF ~made.ok THEN Outcome("mkdir", made.fs, name, version, dest, 0, <<>>, 0)
    ELSE IF ~disc.ok \/ Len(disc.files) = 0
    THEN Outcome("discover", made.fs, name, version, dest, 0, <<>>, 0)
    ELSE Finish(InstallLoop(made.fs, found, disc.files, 1, dest, ctx, opts, env),
                disc.files, t, name, version, found.Package, dest, opts, env)

\* Install from the overwrite guard on.
InstallAt(f, t, found, name, version, dest, opts, env) ==
    IF ~opts.Force /\ packageExists(f, dest)
    THEN Outcome("exists", f, name, version, dest, 0, <<>>, 0)
    ELSE InstallInto(f, t, found, name, version, dest,
                     prepareTemplateContext(name, found.Package, dest, t, env),
                     MakeDest(f, dest, opts, env),
                     DiscoverTemplateFiles(found, found.Package.Templates, env),
                     opts, env)

\* Install once the spec is parsed: the registry lookup, the project root, the
\* destination.
InstallNamed(f, t, found, root, name, version, opts, env) ==
    IF found.err # "none" THEN Outcome("find", f, name, version, <<>>, 0, <<>>, 0)
    ELSE IF ~root.ok THEN Outcome("root", f, name, version, <<>>, 0, <<>>, 0)
    ELSE InstallAt(f, t, found, name, version,
                   DestPath(opts, found.Package, name, root.dir), opts, env)

\* Installer.Install
Install(f, t, reg, cwd, packageName, opts, env) ==
    LET parsed == parsePackageSpec(packageName) IN
    InstallNamed(f, t, FindPackage(reg, parsed[1], env), findProjectRoot(f, cwd, env),
                 parsed[1], ResolveVersion(parsed, opts), opts, env)

\* InstallWithSimpleProgress from the template context on: the destination
\* directory, then the loop, which a dry run replaces by a count.
ProgressInto(f, t, found, name, version, dest, ctx, made, files, opts, env) ==
    IF ctx.err # "none" THEN Outcome(ctx.err, f, name, version, dest, Len(files), <<>>, 0)
    ELSE IF ~made.ok THEN Outcome("mkdir", made.fs, name, version, dest, Len(files), <<>>, 0)
    ELSE Finish(IF opts.DryRun
                THEN [ok |-> TRUE, fs |-> made.fs, done |-> Len(files), fetched |-> 0]
                ELSE InstallLoop(made.fs, found, files, 1, dest, ctx, opts, env),
                files, t, name, version, found.Package, dest, opts, env)

\* InstallWithSimpleProgress from the overwrite guard on: the discovery comes
\* before the context and the destination directory.
ProgressAt(f, t, found, name, version, dest, disc, opts, env) ==
    IF ~opts.Force /\ packageExists(f, dest)
    THEN Outcome("exists", f, name, version, dest, 0, <<>>, 0)
    ELSE IF ~disc.ok \/ Len(disc.files) = 0
    THEN Outcome("discover", f, name, version, dest, 0, <<>>, 0)
    ELSE ProgressInto(f, t, found, name, version, dest,
                      prepareTemplateContext(name, found.Package, dest, t, env),
                      MakeDest(f, dest, opts, env), disc.files, opts, env)

\* InstallWithSimpleProgress once the spec is parsed.
ProgressNamed(f, t, found, root, name, version, opts, env) ==
    IF found.err # "none" THEN Outcome("find", f, name, version, <<>>, 0, <<>>, 0)
    ELSE IF ~root.ok THEN Outcome("root", f, name, version, <<>>, 0, <<>>, 0)
    ELSE ProgressAt(f, t, found, name, version,
                    DestPath(opts, found.Package, name, root.dir),
                    DiscoverTemplateFiles(found, found.Package.Templates, env), opts, env)

\* ProgressInstaller.InstallWithSimpleProgress
InstallWithSimpleProgress(f, t, reg, cwd, packageName, opts, env) ==
    LET parsed == parsePackageSpec(packageName) IN
    ProgressNamed(f, t, FindPackage(reg, parsed[1], env), findProjectRoot(f, cwd, env),
                  parsed[1], ResolveVersion(parsed, opts), opts, env)

\* installWithProgressTracking from the template context on: the destination
\* directory, then the loop, in a dry run too.
TrackingInto(f, t, found, name, version, dest, ctx, made, files, opts, env) ==
    IF ctx.err # "none" THEN Outcome(ctx.err, f, name, version, dest, Len(files), <<>>, 0)
    ELSE IF ~made.ok THEN Outcome("mkdir", made.fs, name, version, dest, Len(files), <<>>, 0)
    ELSE Finish(InstallLoop(made.fs, found, files, 1, dest, ctx, opts, env),
                files, t, name, version, found.Package, dest, opts, env)

\* installWithProgressTracking from the overwrite guard on.
TrackingAt(f, t, found, name, version, dest, disc, opts, env) ==
    IF ~opts.Force /\ packageExists(f, dest)
    THEN Outcome("exists", f, name, version, dest, 0, <<>>, 0)
    ELSE IF ~disc.ok \/ Len(disc.files) = 0
    THEN Outcome("discover", f, name, version, dest, 0, <<>>, 0)
    ELSE TrackingInto(f, t, found, name, version, dest,
                      prepareTemplateContext(name, found.Package, dest, t, env),
                      MakeDest(f, dest, opts, env), disc.files, opts, env)

\* installWithProgressTracking once the spec is parsed.
TrackingNamed(f, t, found, root, name, version, opts, env) ==
    IF found.err # "none" THEN Outcome("find", f, name, version, <<>>, 0, <<>>, 0)
    ELSE IF ~root.ok THEN Outcome("root", f, name, version, <<>>, 0, <<>>, 0)
    ELSE TrackingAt(f, t, found, name, version,
                    DestPath(opts, found.Package, name, root.dir),
                    DiscoverTemplateFiles(found, found.Package.Templates, env), opts, env)

\* ProgressInstaller.installWithProgressTracking
installWithProgressTracking(f, t, reg, cwd, packageName, opts, env) ==
    LET parsed == parsePackageSpec(packageName) IN
    TrackingNamed(f, t, FindPackage(reg, parsed[1], env), findProjectRoot(f, cwd, env),
                  parsed[1], ResolveVersion(parsed, opts), opts, env)

\* ProgressInstaller.InstallWithProgress: without a terminal it is
\* InstallWithSimpleProgress; with one the install runs beside the progress
\* display and its error is returned.
InstallWithProgress(f, t, reg, cwd, packageName, opts, env, tui) ==
    IF ~tui THEN InstallWithSimpleProgress(f, t, reg, cwd, packageName, opts, env)
    ELSE installWithProgressTracking(f, t, reg, cwd, packageName, opts, env)


----------------------------------------------------------------------------
(* The installed-package store. *)

\* time.Now().Format("20060102-150405"): one token per second of the clock.
FormatTime(t) == ToString(t)

\* findInstalledPackage: the conventional path of the package if something is
\* there, else the empty string.
findInstalledPackage(f, cwd, packageName) ==
    LET defaultPath == VpkgDir \o Slash \o packageName IN
    IF packageExists(f, Resolve(cwd, defaultPath)) THEN defaultPath ELSE Empty

\* The backup path of Remove.
BackupPath(installedPath, t) == installedPath \o <<".", "backup", ".", FormatTime(t)>>

\* Installer.Remove: err is "none", "notinstalled", "backup" or "remove".
Remove(f, t, cwd, packageName, backup, env) ==
    LET installedPath == findInstalledPackage(f, cwd, packageName)
        renamed == IF env.osFail = "rename" THEN [ok |-> FALSE, fs |-> f]
                   ELSE Rename(f, Resolve(cwd, installedPath),
                               Resolve(cwd, BackupPath(installedPath, t)))
        removed == IF env.osFail = "remove" THEN [ok |-> FALSE, fs |-> f]
                   ELSE RemoveAll(f, Resolve(cwd, installedPath))
    IN  IF installedPath = Empty THEN [err |-> "notinstalled", fs |-> f]
        ELSE IF backup
        THEN IF renamed.ok THEN [err |-> "none", fs |-> renamed.fs]
             ELSE [err |-> "backup", fs |-> f]
        ELSE IF removed.ok THEN [err |-> "none", fs |-> removed.fs]
             ELSE [err |-> "remove", fs |-> f]

\* An InstalledPackage, as loadInstalledPackage reads it from a meta.yaml.
InstalledPackage(node) ==
    [Name |-> node.name, Version |-> node.version, InstalledAt |-> node.at,
     Path |-> node.path, Type |-> node.type]

\* loadInstalledPackage succeeds: the file can be read and its bytes parse.
Loadable(f, p) == IsFile(f, p) /\ f[p].form = "meta"

\* Installer.ListInstalled: the entry of every loadable meta.yaml beneath
\* internal/vpkg of the working directory, by the path of its meta.yaml (the
\* walk lists them in lexical order of that path).
ListInstalled(f, cwd) ==
    LET vpkgDir == Resolve(cwd, VpkgDir)
        metas   == { p \in Under(f, vpkgDir) : Base(p) = MetaYaml /\ Loadable(f, p) }
        found   == IF Stat(f, vpkgDir) = "ENOENT" THEN {} ELSE metas
    IN  [p \in found |-> InstalledPackage(f[p])]

\* The entries of a listing that carry a name.
EntriesNamed(listing, name) == { p \in DOMAIN listing : listing[p].Name = name }


----------------------------------------------------------------------------
(* The project the commands run in, and what they are given. *)

\* The project root, which holds go.mod, and a subdirectory of it.
ProjectRoot == << <<"proj">> >>
SubDir == << <<"proj">>, <<"sub">> >>

WorkDirs == {ProjectRoot, SubDir}

\* A project nothing has been installed into.
FreshFS ==
    ( ProjectRoot :> Dir ) @@
    ( SubDir :> Dir ) @@
    ( (ProjectRoot \o <<GoMod>>) :> Node("marker", "go.mod", Empty, Empty, Empty, "", 0) )

\* The registry index of the install scenarios: two repositories, both listing
\* n/p.
DefaultRegistry == <<URL1, URL2>>

Pinned(name, version) == name \o <<"@">> \o version

\* The conventional destination of n/p, given as an override.
DestP == VpkgDir \o Slash \o NameP

\* Package specs, options and faults of the lifecycle scenarios.
Specs == { Pinned(NameP, <<"1">>), NameQ }

Options == { InstallOptions(d, force, FALSE, Empty) : d \in {Empty, DestP}, force \in BOOLEAN }

InstallFaults ==
    { NoFault,
      Env(FALSE, {URL1}, FALSE, {}, FALSE, 0, 0, "none"),
      Env(FALSE, {}, FALSE, {}, FALSE, 2, 0, "none") }

\* The progress-reporting install runs in the lifecycle without faults; with
\* every fault it runs in SpecInstall.
ProgressFaults == { NoFault }

RemoveNames == { NameP, NameQ, <<"n">> }

RemoveFaults == { NoFault, Env(FALSE, {}, FALSE, {}, FALSE, 0, 0, "rename") }

----------------------------------------------------------------------------
(* The state machine: one action per top-level operation. *)

NoCall == [op |-> "none"]

InstallCall(op, cwd, packageName, opts, env, r) ==
    [op |-> op, cwd |-> cwd, arg |-> packageName, opts |-> opts, env |-> env, err |-> r.err,
     name |-> r.name, version |-> r.version, dest |-> r.dest, n |-> r.n,
     reported |-> r.reported, fetched |-> r.fetched]

Init ==
    /\ fs = FreshFS
    /\ now = 0
    /\ nOps = 0
    /\ registry = DefaultRegistry
    /\ last = NoCall

DoInstall(cwd, packageName, opts, env) ==
    /\ nOps < MaxOps
    /\ LET r == Install(fs, now, registry, cwd, packageName, opts, env) IN
       /\ fs' = r.fs
       /\ last' = InstallCall("Install", cwd, packageName, opts, env, r)
    /\ nOps' = nOps + 1
    /\ UNCHANGED <<now, registry>>

DoInstallWithSimpleProgress(cwd, packageName, opts, env) ==
    /\ nOps < MaxOps
    /\ LET r == InstallWithSimpleProgress(fs, now, registry, cwd, packageName, opts, env) IN
       /\ fs' = r.fs
       /\ last' = InstallCall("InstallWithSimpleProgress", cwd, packageName, opts, env, r)
    /\ nOps' = nOps + 1
    /\ UNCHANGED <<now, registry>>

DoInstallWithProgress(cwd, packageName, opts, env, tui) ==
    /\ nOps < MaxOps
    /\ LET r == InstallWithProgress(fs, now, registry, cwd, packageName, opts, env, tui) IN
       /\ fs' = r.fs
       /\ last' = InstallCall("InstallWithProgress", cwd, packageName, opts, env, r)
    /\ nOps' = nOps + 1
    /\ UNCHANGED <<now, registry>>

DoRemove(cwd, packageName, backup, env) ==
    /\ nOps < MaxOps
    /\ LET r == Remove(fs, now, cwd, packageName, backup, env) IN
       /\ fs' = r.fs
       /\ last' = [op |-> "Remove", cwd |-> cwd, arg |-> packageName,
                   backup |-> backup, err |-> r.err, at |-> now]
    /\ nOps' = nOps + 1
    /\ UNCHANGED <<now, registry>>

\* The walk function of ListInstalled returns nil whatever it meets, so the
\* call has no error to return.
DoListInstalled(cwd) ==
    /\ nOps < MaxOps
    /\ last' = [op |-> "ListInstalled", cwd |-> cwd, err |-> "none",
                listing |-> ListInstalled(fs, cwd)]
    /\ nOps' = nOps + 1
    /\ UNCHANGED <<fs, now, registry>>

\* A second passes.
Tick ==
    /\ now < MaxTime
    /\ now' = now + 1
    /\ UNCHANGED <<fs, nOps, registry, last>>

Next ==
    \/ \E cwd \in WorkDirs, s \in Specs, o \in Options, e \in InstallFaults :
           DoInstall(cwd, s, o, e)
    \/ \E cwd \in WorkDirs, s \in Specs, o \in Options, e \in ProgressFaults :
           DoInstallWithSimpleProgress(cwd, s, o, e)
    \/ \E cwd \in WorkDirs, name \in RemoveNames, backup \in BOOLEAN, e \in RemoveFaults :
           DoRemove(cwd, name, backup, e)
    \/ \E cwd \in WorkDirs : DoListInstalled(cwd)
    \/ Tick

Spec == Init /\ [][Next]_vars

----------------------------------------------------------------------------
(* One install on its own: from a fresh project or from what an earlier      *)
(* install left, with every combination of the options and one fault.        *)

SeedOptions == InstallOptions(Empty, FALSE, FALSE, Empty)

\* The project after n/p@1 was installed, and after the install of n/q
\* stopped at its second template.
InstalledP ==
    Install(FreshFS, 0, DefaultRegistry, ProjectRoot, Pinned(NameP, <<"1">>),
            SeedOptions, NoFault).fs

PartialQ ==
    Install(FreshFS, 0, DefaultRegistry, ProjectRoot, NameQ, SeedOptions, NoFault).fs

Seeds == { FreshFS, InstalledP, PartialQ }

AllSpecs == { NameP, Pinned(NameP, <<"1">>), NameQ, NameD }

\* Destinations: none given, the conventional one, an existing regular file,
\* an existing empty directory, an absolute path.
AllDests == { Empty, DestP, GoMod, <<"sub">>, <<"/", "opt", "/", "pkgs">> }

AllOptions ==
    { InstallOptions(dest, force, dryRun, version) :
          dest \in AllDests, force \in BOOLEAN, dryRun \in BOOLEAN,
          version \in {Empty, <<"9">>} }

AllFaults ==
    { NoFault,
      Env(TRUE, {}, FALSE, {}, FALSE, 0, 0, "none"),
      Env(FALSE, {URL1}, FALSE, {}, FALSE, 0, 0, "none"),
      Env(FALSE, {}, TRUE, {}, FALSE, 0, 0, "none"),
      Env(FALSE, {}, FALSE, {<<"tp">>}, FALSE, 0, 0, "none"),
      Env(FALSE, {}, FALSE, {<<"tp">>}, TRUE, 0, 0, "none"),
      Env(FALSE, {}, FALSE, {}, FALSE, 1, 0, "none"),
      Env(FALSE, {}, FALSE, {}, FALSE, 2, 0, "none"),
      Env(FALSE, {}, FALSE, {}, FALSE, 0, 1, "none"),
      Env(FALSE, {}, FALSE, {}, FALSE, 0, 0, "getwd"),
      Env(FALSE, {}, FALSE, {}, FALSE, 0, 0, "mkdir"),
      Env(FALSE, {}, FALSE, {}, FALSE, 0, 0, "meta") }

InitInstall ==
    /\ fs \in Seeds
    /\ now = 0
    /\ nOps = 0
    /\ registry = DefaultRegistry
    /\ last = NoCall

NextInstall ==
    \/ \E cwd \in WorkDirs, s \in AllSpecs, o \in AllOptions, e \in AllFaults :
           nOps = 0 /\ DoInstall(cwd, s, o, e)
    \/ \E cwd \in WorkDirs, s \in AllSpecs, o \in AllOptions, e \in AllFaults :
           nOps = 0 /\ DoInstallWithSimpleProgress(cwd, s, o, e)
    \/ \E cwd \in WorkDirs, s \in AllSpecs, o \in AllOptions, e \in AllFaults,
          tui \in BOOLEAN :
           nOps = 0 /\ DoInstallWithProgress(cwd, s, o, e, tui)

SpecInstall == InitInstall /\ [][NextInstall]_vars

----------------------------------------------------------------------------
(* Installs into a project nothing has been installed into, of packages of   *)
(* every shape the registry can list: a plain one, one whose name has no     *)
(* namespace, one that declares a destination and has templates that differ  *)
(* in their extension only.                                                  *)

ShapeSpecs == { NameP, NameS, NameC }

NextShapes ==
    \/ \E cwd \in WorkDirs, s \in ShapeSpecs, o \in AllOptions, e \in AllFaults :
           nOps = 0 /\ DoInstall(cwd, s, o, e)
    \/ \E cwd \in WorkDirs, s \in ShapeSpecs, o \in AllOptions, e \in AllFaults :
           nOps = 0 /\ DoInstallWithSimpleProgress(cwd, s, o, e)

SpecShapes == Init /\ [][NextShapes]_vars

----------------------------------------------------------------------------
(* The spec parser on its own: every string over a small alphabet, up to     *)
(* MaxSpecLen tokens, is handed to parsePackageSpec.                         *)

SpecAlphabet == {"a", "/", "@"}

SpecStrings == UNION { [1..n -> SpecAlphabet] : n \in 0..MaxSpecLen }

DoParsePackageSpec(spec) ==
    /\ LET r == parsePackageSpec(spec) IN
       last' = [op |-> "parsePackageSpec", arg |-> spec, name |-> r[1], version |-> r[2]]
    /\ UNCHANGED <<fs, now, nOps, registry>>

NextParse == \E spec \in SpecStrings : DoParsePackageSpec(spec)

SpecParse == Init /\ [][NextParse]_vars

----------------------------------------------------------------------------
(* The registry client on its own: the index is any list of at most MaxRepos *)
(* repositories, any set of them fails to answer.                            *)

Registries == UNION { [1..n -> URLs] : n \in 0..MaxRepos }

FindNames == { NameP, NameQ, NameD, <<"x", "/", "y">> }

RegistryFaults ==
    { Env(regFail, repoFail, FALSE, {}, FALSE, 0, 0, "none") :
          regFail \in BOOLEAN, repoFail \in SUBSET URLs }

ListFilters ==
    { ListOptions(type, tags) :
          type \in {"", "fx-module"}, tags \in {<<>>, <<"db">>, <<"cli", "cache">>} }

InitRegistry ==
    /\ fs = FreshFS
    /\ now = 0
    /\ nOps = 0
    /\ registry \in Registries
    /\ last = NoCall

DoFindPackage(name, env) ==
    /\ LET r == FindPackage(registry, name, env) IN
       last' = [op |-> "FindPackage", arg |-> name, failed |-> env.repoFail,
                regFail |-> env.regFail, err |-> r.err, Package |-> r.Package,
                MetaURL |-> r.MetaURL, repo |-> r.repo,
                requests |-> FindPackageRequests(registry, name, env)]
    /\ UNCHANGED <<fs, now, nOps, registry>>

DoListPackages(opts, env) ==
    /\ LET r == ListPackages(registry, opts, env) IN
       last' = [op |-> "ListPackages", opts |-> opts, failed |-> env.repoFail,
                regFail |-> env.regFail, err |-> r.err, pkgs |-> r.pkgs]
    /\ UNCHANGED <<fs, now, nOps, registry>>

NextRegistry ==
    \/ \E name \in FindNames, env \in RegistryFaults : DoFindPackage(name, env)
    \/ \E opts \in ListFilters, env \in RegistryFaults : DoListPackages(opts, env)

SpecRegistry == InitRegistry /\ [][NextRegistry]_vars

----------------------------------------------------------------------------
(* The store on its own: the install subtree of the project holds any mix of *)
(* good, corrupt and unreadable records, and is listed, or has a package     *)
(* removed, from either working directory.                                   *)

\* A meta.yaml whose bytes do not unmarshal, and one that cannot be read.
CorruptMeta == Node("corrupt", "", Empty, Empty, Empty, "", 0)
UnreadableMeta == Node("unreadable", "", Empty, Empty, Empty, "", 0)

StoreSlots == { NameP, NameQ, NameD }

SlotKinds == { "absent", "good", "corrupt", "unreadable" }

\* The directory of a package in the install subtree of the project.
SlotDir(name) == ProjectRoot \o Components(VpkgDir \o Slash \o name)

\* The project with a record of the given kind in each slot.
StoreFS(kinds) ==
    LET present == { n \in StoreSlots : kinds[n] # "absent" }
        dirs    == UNION { Prefixes(SlotDir(n)) : n \in present }
        metas   == { SlotDir(n) \o <<MetaYaml>> : n \in present }
        MetaAt(p) ==
            LET n == CHOOSE x \in present : p = SlotDir(x) \o <<MetaYaml>> IN
            IF kinds[n] = "good"
            THEN InstalledMeta(SlotDir(n), n, <<"1">>, Manifest[URL1][1], 0)
            ELSE IF kinds[n] = "corrupt" THEN CorruptMeta
            ELSE UnreadableMeta
    IN  [p \in DOMAIN FreshFS \cup dirs \cup metas |->
            IF p \in DOMAIN FreshFS THEN FreshFS[p]
            ELSE IF p \in dirs THEN Dir
            ELSE MetaAt(p)]

InitStore ==
    /\ fs \in { StoreFS(kinds) : kinds \in [StoreSlots -> SlotKinds] }
    /\ now = 0
    /\ nOps = 0
    /\ registry = DefaultRegistry
    /\ last = NoCall

NextStore ==
    \/ \E cwd \in WorkDirs : nOps = 0 /\ DoListInstalled(cwd)
    \/ \E cwd \in WorkDirs, name \in RemoveNames, backup \in BOOLEAN, e \in RemoveFaults :
           nOps = 0 /\ DoRemove(cwd, name, backup, e)

SpecStore == InitStore /\ [][NextStore]_vars

----------------------------------------------------------------------------
(* The project locator on its own: a chain of directories MaxDirDepth deep,  *)
(* any of them (the filesystem root too) holding any of the marker files,    *)
(* and any of them the working directory.                                    *)

\* The directory k levels beneath the filesystem root.
ChainDir(k) == [i \in 1..k |-> <<"d">>]

Markers == { GoMod, VandorConfig }

\* The chain with the marker files marks[k] in the directory at level k.
LocatorFS(marks) ==
    LET dirs  == { ChainDir(k) : k \in 1..MaxDirDepth }
        files == { ChainDir(k) \o <<mk>> : k \in 0..MaxDirDepth, mk \in Markers }
        put   == { p \in files : Base(p) \in marks[Len(p) - 1] }
    IN  [p \in dirs \cup put |->
            IF p \in dirs THEN Dir
            ELSE Node("marker", "", Empty, Empty, Empty, "", 0)]

InitLocator ==
    /\ fs \in { LocatorFS(marks) : marks \in [0..MaxDirDepth -> SUBSET Markers] }
    /\ now = 0
    /\ nOps = 0
    /\ registry = DefaultRegistry
    /\ last = NoCall

DoFindProjectRoot(cwd, env) ==
    /\ nOps < MaxOps
    /\ LET r == findProjectRoot(fs, cwd, env) IN
       last' = [op |-> "findProjectRoot", cwd |-> cwd, env |-> env, err |-> r.err,
                dir |-> r.dir, steps |-> r.steps]
    /\ nOps' = nOps + 1
    /\ UNCHANGED <<fs, now, registry>>

LocatorFaults == { NoFault, Env(FALSE, {}, FALSE, {}, FALSE, 0, 0, "getwd") }

NextLocator ==
    \E k \in 0..MaxDirDepth, env \in LocatorFaults :
        nOps = 0 /\ DoFindProjectRoot(ChainDir(k), env)

SpecLocator == InitLocator /\ [][NextLocator]_vars

----------------------------------------------------------------------------
(* Template discovery on its own: every package of every repository, every   *)
(* templates directory, any set of listing requests failing.                 *)

\* Every package paired with the repository that lists it.
DiscoverTargets ==
    UNION { { Found(Manifest[u][k], u, 1) : k \in 1..Len(Manifest[u]) } : u \in URLs }

DiscoverDirs == { <<"tp">>, <<"tq">>, <<"td">>, <<"ts">>, <<"tw">>, <<"tp", "/", "sub">> }

DiscoverFaults ==
    { Env(FALSE, {}, FALSE, apiFail, probeFail, 0, 0, "none") :
          apiFail \in SUBSET { <<"tp">>, <<"tp", "/", "sub">>, <<"tq">> },
          probeFail \in BOOLEAN }

DoDiscoverTemplateFiles(found, templatesDir, env) ==
    /\ nOps < MaxOps
    /\ LET r == DiscoverTemplateFiles(found, templatesDir, env) IN
       last' = [op |-> "DiscoverTemplateFiles", found |-> found, dir |-> templatesDir,
                env |-> env, ok |-> r.ok, files |-> r.files, strategy |-> r.strategy,
                failed |-> r.failed, probes |-> r.probes, listed |-> r.listed]
    /\ nOps' = nOps + 1
    /\ UNCHANGED <<fs, now, registry>>

NextDiscover ==
    \E found \in DiscoverTargets, dir \in DiscoverDirs, env \in DiscoverFaults :
        nOps = 0 /\ DoDiscoverTemplateFiles(found, dir, env)

SpecDiscover == Init /\ [][NextDiscover]_vars

----------------------------------------------------------------------------
(* C9. *)

\* The positions of "@" in a string.
AtSigns(s) == { i \in 1..Len(s) : s[i] = "@" }

\* C9: for every string without "@", parsePackageSpec returns the string and
\* the empty version; for every string with "@", the name is everything
\* before the last "@" and the version everything after it.
C9_SplitAtLastAt ==
    last.op = "parsePackageSpec" =>
        IF AtSigns(last.arg) = {}
        THEN last.name = last.arg /\ last.version = Empty
        ELSE \E i \in AtSigns(last.arg) :
                 /\ \A j \in AtSigns(last.arg) : j <= i
                 /\ last.name = SubSeq(last.arg, 1, i - 1)
                 /\ last.version = SubSeq(last.arg, i + 1, Len(last.arg))

----------------------------------------------------------------------------
(* C1, C2. *)

Installs == {"Install", "InstallWithSimpleProgress", "InstallWithProgress"}

\* The step is a call of Install or of InstallWithSimpleProgress.
InstallStep == nOps' = nOps + 1 /\ last'.op \in Installs

\* C1: when an install resolves its destination, the destination exists
\* before the call and Force is false, the call returns the already-exists
\* error and the filesystem after the call is the filesystem before it.
C1_OverwriteGuard ==
    [][(/\ InstallStep
        /\ last'.err \notin {"find", "root"}
        /\ ~last'.opts.Force
        /\ Exists(fs, last'.dest))
       => (last'.err = "exists" /\ fs' = fs)]_vars

\* C1 happens: an install without Force was refused because its destination,
\* which holds the files of an earlier install, exists.
C1_Witness ==
    /\ last.op \in Installs
    /\ ~last.opts.Force
    /\ last.err = "exists"
    /\ IsDir(fs, last.dest)
    /\ \E p \in Under(fs, last.dest) : IsFile(fs, p)

\* C2: a dry run that discovered N template files and went into the loop over
\* them reports exactly N intended output paths and leaves the filesystem as
\* it was.
C2_DryRunReportsAll ==
    [][(/\ InstallStep
        /\ last'.opts.DryRun
        /\ last'.err \in {"none", "template"})
       => (Len(last'.reported) = last'.n /\ fs' = fs)]_vars

----------------------------------------------------------------------------
(* C10. *)

\* The version pinned in a spec: what follows its "@", empty without one.
PinOf(spec) ==
    IF AtSigns(spec) = {} THEN Empty
    ELSE LET i == CHOOSE k \in AtSigns(spec) : \A j \in AtSigns(spec) : j <= k
         IN  SubSeq(spec, i + 1, Len(spec))

\* The version of the package the latest install found in the registry.
RegistryVersion == FindPackage(registry, last.name, last.env).Package.Version

\* C10: the version recorded in the metadata after a successful install is
\* the version pinned in the spec, else options.Version, else the version of
\* the package in the registry; it is not empty when the registry has one.
C10_VersionResolution ==
    (last.op \in Installs /\ last.err = "none" /\ ~last.opts.DryRun) =>
        LET meta == fs[last.dest \o <<MetaYaml>>] IN
        /\ meta.version =
               IF PinOf(last.arg) # Empty THEN PinOf(last.arg)
               ELSE IF last.opts.Version # Empty THEN last.opts.Version
               ELSE RegistryVersion
        /\ RegistryVersion # Empty => meta.version # Empty

----------------------------------------------------------------------------
(* C5, C6. *)

\* The manifest of the i-th repository of the index lists a package named name.
Lists(i, name) ==
    \E k \in 1..Len(Manifest[registry[i]]) : Manifest[registry[i]][k].Name = name

\* The positions of the index whose manifest request succeeded in the latest
\* call.
Answered == { i \in 1..Len(registry) : registry[i] \notin last.failed }

RECURSIVE Flatten(_)
Flatten(ss) == IF ss = <<>> THEN <<>> ELSE Head(ss) \o Flatten(Tail(ss))

\* The manifests of the repositories that answered, in index order.
AnsweredManifests ==
    LET Ok(u) == u \notin last.failed
        good  == SelectSeq(registry, Ok)
    IN  Flatten([i \in 1..Len(good) |-> Manifest[good[i]]])

\* C5: whatever repositories fail to answer, FindPackage succeeds exactly when
\* some repository that answered lists the name, and ListPackages without
\* filters succeeds and returns the packages of exactly the repositories that
\* answered, in index order.
C5_FaultTolerance ==
    /\ (last.op = "FindPackage" /\ ~last.regFail) =>
           /\ last.err = "none" <=> \E i \in Answered : Lists(i, last.arg)
           /\ last.err = "none" => last.Package.Name = last.arg
           /\ last.err \in {"none", "notfound"}
    /\ (last.op = "ListPackages" /\ ~last.regFail /\ last.opts = ListOptions("", <<>>)) =>
           /\ last.err = "none"
           /\ last.pkgs = AnsweredManifests

\* C5 happens: of three repositories the second fails and the name is found in
\* the third; and a listing leaves out a failed repository.
C5_Witness ==
    /\ Len(registry) = 3
    /\ last.op = "FindPackage"
    /\ registry[2] \in last.failed
    /\ last.err = "none"
    /\ last.repo = 3
    /\ ~Lists(1, last.arg)

\* C6 as stated: when two or more repositories list the name, FindPackage
\* returns the package and the repository of the one listed first in the index.
C6_FirstListedWins ==
    (/\ last.op = "FindPackage"
     /\ ~last.regFail
     /\ Cardinality({ i \in 1..Len(registry) : Lists(i, last.arg) }) >= 2) =>
        \E i \in 1..Len(registry) :
            /\ Lists(i, last.arg)
            /\ \A j \in 1..(i - 1) : ~Lists(j, last.arg)
            /\ last.err = "none"
            /\ last.repo = i
            /\ last.MetaURL = registry[i]
            /\ last.Package.Name = last.arg

\* C6, amended: FindPackage returns the first package of that name of the
\* first repository, in index order, that answered and lists the name.  The
\* result is fixed by the index, the name and the set of repositories that
\* answered, so repeated calls that see the same answers return the same.
C6_FirstAnsweredWins ==
    (/\ last.op = "FindPackage"
     /\ ~last.regFail
     /\ \E i \in Answered : Lists(i, last.arg)) =>
        \E i \in Answered :
            /\ Lists(i, last.arg)
            /\ \A j \in Answered : j < i => ~Lists(j, last.arg)
            /\ last.err = "none"
            /\ last.repo = i
            /\ last.MetaURL = registry[i]
            /\ \E k \in 1..Len(Manifest[registry[i]]) :
                   /\ Manifest[registry[i]][k] = last.Package
                   /\ last.Package.Name = last.arg
                   /\ \A m \in 1..(k - 1) : Manifest[registry[i]][m].Name # last.arg

\* C6 happens: two repositories list the name, the first of them failed, and
\* the package of the second is returned.
C6_Witness ==
    /\ last.op = "FindPackage"
    /\ last.err = "none"
    /\ \E i \in 1..Len(registry) :
           /\ i < last.repo
           /\ Lists(i, last.arg)
           /\ registry[i] \in last.failed
           /\ registry[i] # registry[last.repo]

----------------------------------------------------------------------------
(* C3, C4. *)

\* C3: after a successful install of a pinned spec, ListInstalled yields
\* exactly one entry of that name, with the pinned version; after a successful
\* Remove without backup, ListInstalled yields no entry of that name.
C3_RoundTrip ==
    /\ (last.op \in Installs /\ last.err = "none" /\ ~last.opts.DryRun
            /\ PinOf(last.arg) # Empty) =>
           LET listing == ListInstalled(fs, last.cwd)
               mine    == EntriesNamed(listing, last.name)
           IN  /\ Cardinality(mine) = 1
               /\ \A p \in mine : listing[p].Version = PinOf(last.arg)
    /\ (last.op = "Remove" /\ ~last.backup /\ last.err = "none") =>
           EntriesNamed(ListInstalled(fs, last.cwd), last.arg) = {}

\* The directory Remove looks for a package in, and the directory a backup
\* made at time t moves it to.
PackageDir(cwd, name) == cwd \o Components(VpkgDir \o Slash \o name)

BackupDir(cwd, name, t) ==
    LET dir == PackageDir(cwd, name) IN
    Parent(dir) \o << Base(dir) \o <<".", "backup", ".", ToString(t)>> >>

\* Where an entry q at or beneath old is after old was moved to new.
MovedTo(q, old, new) == new \o SubSeq(q, Len(old) + 1, Len(q))

\* The step is a call of Remove.
RemoveStep == nOps' = nOps + 1 /\ last'.op = "Remove"

\* C4: after a successful Remove with backup every entry of the package
\* directory is, unchanged, at the same place beneath the backup path, the
\* backup path holds nothing else and nothing is left at the original path;
\* after a failed one every entry is still, unchanged, at the original path.
C4_BackupKeepsFiles ==
    [][(RemoveStep /\ last'.backup) =>
       LET old == PackageDir(last'.cwd, last'.arg)
           new == BackupDir(last'.cwd, last'.arg, now)
       IN  IF last'.err = "none"
           THEN /\ Under(fs, old) # {}
                /\ \A q \in Under(fs, old) :
                       /\ MovedTo(q, old, new) \in DOMAIN fs'
                       /\ fs'[MovedTo(q, old, new)] = fs[q]
                /\ Under(fs', new) = { MovedTo(q, old, new) : q \in Under(fs, old) }
                /\ Under(fs', old) = {}
           ELSE \A q \in Under(fs, old) : q \in DOMAIN fs' /\ fs'[q] = fs[q]]_vars

\* C4 happens: a Remove with backup succeeded and the backup path holds the
\* files of an install, a file in a subdirectory among them.
C4_Witness ==
    /\ last.op = "Remove"
    /\ last.backup
    /\ last.err = "none"
    /\ LET new == BackupDir(last.cwd, last.arg, last.at) IN
       /\ IsFile(fs, new \o <<MetaYaml>>)
       /\ \E p \in Under(fs, new) : IsFile(fs, p) /\ Len(p) > Len(new) + 1

----------------------------------------------------------------------------
(* C7, C8. *)

\* C7: after an install that went into the loop over its templates, the
\* destination holds the metadata file if and only if the install wrote all
\* of its files.
C7_MetaIffComplete ==
    (last.op \in Installs /\ ~last.opts.DryRun /\ last.err \in {"none", "template"}) =>
        (IsFile(fs, last.dest \o <<MetaYaml>>) <=> last.err = "none")

\* C8: after a successful install with Force the files beneath the
\* destination are exactly the outputs of this install and its metadata file.
C8_ForceOverwritesCleanly ==
    (last.op \in Installs /\ last.opts.Force /\ ~last.opts.DryRun /\ last.err = "none") =>
        { p \in Under(fs, last.dest) : IsFile(fs, p) }
            = { last.reported[k] : k \in 1..Len(last.reported) }
                  \cup { last.dest \o <<MetaYaml>> }

----------------------------------------------------------------------------
(* C11. *)

\* What an install call c found in the registry, the templates it discovered
\* and the context it rendered them with.
FoundOf(c) == FindPackage(registry, c.name, c.env)

FilesOf(c) == DiscoverTemplateFiles(FoundOf(c), FoundOf(c).Package.Templates, c.env).files

ContextOf(c) == prepareTemplateContext(c.name, FoundOf(c).Package, c.dest, now, c.env)

\* The bytes the repository serves for the j-th template of call c.
ContentOf(c, j) ==
    RemoteFiles[FoundOf(c).MetaURL][FoundOf(c).Package.Templates \o Slash \o FilesOf(c)[j]]

\* C11: an install that went into the loop over its templates handled them in
\* discovery order and stopped at the first that failed.  The outputs of the
\* templates before the failing one are written, the failing one is the last
\* whose content was requested, and the output of every template after it is
\* as it was before the call; what is completely written is a prefix of the
\* discovery order.
C11_FailFast ==
    [][(/\ InstallStep
        /\ ~last'.opts.DryRun
        /\ last'.err \in {"none", "meta", "template"})
       => LET c     == last'
              files == FilesOf(c)
              done  == Len(c.reported)
          IN  /\ c.n = Len(files)
              /\ IF c.err = "template"
                 THEN done < Len(files) /\ c.fetched = done + 1
                 ELSE done = Len(files) /\ c.fetched = done
              /\ \A j \in 1..done :
                     /\ c.reported[j] = OutputPath(c.dest, files[j])
                     /\ IsFile(fs', c.reported[j])
                     /\ fs'[c.reported[j]] = Rendered(ContentOf(c, j), ContextOf(c))
              /\ c.err = "template" =>
                     LET out == OutputPath(c.dest, files[done + 1]) IN
                     \/ out \notin DOMAIN fs'
                     \/ fs'[out].form = "partial"
                     \/ (out \in DOMAIN fs /\ fs'[out] = fs[out])
              /\ \A j \in (done + 2)..Len(files) :
                     LET out == OutputPath(c.dest, files[j]) IN
                     /\ out \in DOMAIN fs' <=> out \in DOMAIN fs
                     /\ out \in DOMAIN fs => fs'[out] = fs[out]]_vars

\* C11 happens: the second of three templates failed; the output of the first
\* is written and the output of the third is not there.
C11_Witness ==
    /\ last.op \in Installs
    /\ ~last.opts.DryRun
    /\ last.err = "template"
    /\ last.n = 3
    /\ Len(last.reported) = 1
    /\ IsFile(fs, last.reported[1])
    /\ OutputPath(last.dest, FilesOf(last)[3]) \notin DOMAIN fs

----------------------------------------------------------------------------
(* C12. *)

\* C12: an install in a project whose module cannot be detected returns an
\* error and leaves the filesystem as it was: no destination directory and no
\* file is created.
C12_ModuleFailureBeforeWrites ==
    [][(InstallStep /\ last'.env.modFail) => (last'.err # "none" /\ fs' = fs)]_vars

\* C12 happens: an install that was not a dry run got as far as the template
\* context, failed there, and its destination does not exist.
C12_Witness ==
    /\ last.op \in Installs
    /\ last.env.modFail
    /\ ~last.opts.DryRun
    /\ last.err = "module"
    /\ ~Exists(fs, last.dest)

----------------------------------------------------------------------------
(* C13. *)

\* What each strategy yields for the latest discovery, taken on its own.
ListingOf(c) == discoverViaGitHubAPI(c.found, c.dir, c.env)

ProbingOf(c) == discoverViaOptimizedPatterns(c.found, c.dir, c.env)

ListingYields(c) == ListingOf(c).ok /\ Len(ListingOf(c).files) > 0

ProbingYields(c) == ProbingOf(c).ok /\ Len(ProbingOf(c).files) > 0

\* C13: DiscoverTemplateFiles returns what the directory listing yields
\* whenever that is at least one file, and sends no probe then; it probes only
\* when the listing is unavailable, fails or yields nothing, and returns what
\* the probes find; it returns an error exactly when both yield nothing, and
\* never an empty list without an error.
C13_StrategyOrder ==
    last.op = "DiscoverTemplateFiles" =>
        /\ ListingYields(last) =>
               last.ok /\ last.files = ListingOf(last).files /\ last.probes = 0
        /\ last.probes > 0 => ~ListingYields(last)
        /\ (~ListingYields(last) /\ ProbingYields(last)) =>
               last.ok /\ last.files = ProbingOf(last).files /\ last.probes > 0
        /\ ~last.ok <=> (~ListingYields(last) /\ ~ProbingYields(last))
        /\ last.ok => Len(last.files) > 0

\* C13 happens: the listing yields files that the probes would not all have
\* found, and they are returned without a probe.
C13_Witness ==
    /\ last.op = "DiscoverTemplateFiles"
    /\ last.ok
    /\ last.probes = 0
    /\ ProbingYields(last)
    /\ last.files = ListingOf(last).files
    /\ last.files # ProbingOf(last).files

----------------------------------------------------------------------------
(* C14. *)

\* The files the repository of call c serves beneath the templates directory
\* of its package, by their path beneath that directory.
ServedBeneath(c) ==
    LET dir == FoundOf(c).Package.Templates \o Slash IN
    { SubSeq(path, Len(dir) + 1, Len(path)) :
          path \in { q \in DOMAIN RemoteFiles[FoundOf(c).MetaURL] : IsPrefix(dir, q) } }

\* C14: after a successful install every file beneath the templates directory
\* of the package is in the destination under the same relative path: rendered,
\* its extension removed, when its name ends in a template extension, and copied
\* byte for byte when it does not.
C14_TemplatesAndStatics ==
    (last.op \in Installs /\ last.err = "none" /\ ~last.opts.DryRun) =>
        \A rel \in ServedBeneath(last) :
            LET bytes == RemoteFiles[FoundOf(last).MetaURL][
                             FoundOf(last).Package.Templates \o Slash \o rel]
                out   == last.dest \o Components(removeTemplateExtension(rel))
            IN  /\ IsFile(fs, out)
                /\ fs[out] = IF isTemplateFile(rel) THEN Rendered(bytes, ContextOf(last))
                             ELSE Copied(bytes)

----------------------------------------------------------------------------
(* C15. *)

\* The install subtree of the project, and the metadata files in it that can
\* be read and parsed.
InstallSubtree == ProjectRoot \o Components(VpkgDir)

ParsableMetas ==
    { p \in Under(fs, InstallSubtree) :
          Base(p) = MetaYaml /\ IsFile(fs, p) /\ fs[p].form = "meta" }

\* C15: whatever unreadable or unparsable metadata files the install subtree
\* holds, ListInstalled returns no error and exactly one entry for every
\* parsable metadata file of the subtree; when the subtree does not exist it
\* returns the empty list.  (ListInstalled reads the filesystem only: it is
\* handed neither the registry nor the network.)
C15_ToleratesCorruptRecords ==
    last.op = "ListInstalled" =>
        /\ last.err = "none"
        /\ DOMAIN last.listing = ParsableMetas
        /\ \A p \in ParsableMetas : last.listing[p] = InstalledPackage(fs[p])
        /\ ~Exists(fs, InstallSubtree) => DOMAIN last.listing = {}

----------------------------------------------------------------------------
(* C16. *)

\* C16: no failed request is swallowed.  For DiscoverTemplateFiles, which has
\* no documented tolerance: when a directory-listing request fails, or the
\* probes it sends go unanswered, the call returns an error.
C16_NoErrorSwallowed ==
    (/\ last.op = "DiscoverTemplateFiles"
     /\ \/ last.failed > 0
        \/ (last.probes > 0 /\ last.env.probeFail)) => ~last.ok

----------------------------------------------------------------------------
(* C17. *)

\* The directory d holds a project marker.
HasMarker(f, d) == Exists(f, d \o <<GoMod>>) \/ Exists(f, d \o <<VandorConfig>>)

\* The directories from dir up to the root.
Ancestors(dir) == { SubSeq(dir, 1, k) : k \in 0..Len(dir) }

\* The nearest of them that holds a marker (when there is one).
NearestMarked(f, dir) ==
    CHOOSE d \in Ancestors(dir) :
        /\ HasMarker(f, d)
        /\ \A e \in Ancestors(dir) : Len(e) > Len(d) => ~HasMarker(f, e)

\* The destination string an install call c is to use: options.Dest, else the
\* destination the package declares, else internal/vpkg/<name>.
ChosenDest(c) ==
    IF c.opts.Dest # Empty THEN c.opts.Dest
    ELSE IF FoundOf(c).Package.Destination # Empty THEN FoundOf(c).Package.Destination
    ELSE <<"internal", "/", "vpkg", "/">> \o c.name

\* C17: the destination of an install is options.Dest if given, else the
\* destination the package declares if it declares one, else
\* internal/vpkg/<name>; a relative one is joined onto the project root, an
\* absolute one is the destination as it stands.
C17_DestinationResolution ==
    [][(InstallStep /\ last'.err \notin {"find", "root"}) =>
       last'.dest = IF ChosenDest(last')[1] = "/"
                    THEN SelectSeq(Split(ChosenDest(last'), "/"), IsComponent)
                    ELSE NearestMarked(fs, last'.cwd)
                             \o SelectSeq(Split(ChosenDest(last'), "/"), IsComponent)]_vars

\* C17 happens: an install run from a subdirectory, without options.Dest, of
\* a package that declares a destination made that directory beneath the
\* project root.
C17_Witness ==
    /\ last.op \in Installs
    /\ last.cwd = SubDir
    /\ last.opts.Dest = Empty
    /\ FoundOf(last).Package.Destination = <<"lib">>
    /\ last.dest = ProjectRoot \o << <<"lib">> >>
    /\ IsDir(fs, last.dest)

----------------------------------------------------------------------------
(* C18. *)

\* C18: the working directories of the project address one install subtree.
\* The listing is the same from each of them, and a package installed to its
\* default place from one of them is listed from each of them and can be
\* removed from each of them.
C18_WorkingDirectoryIndependence ==
    /\ \A c1 \in WorkDirs, c2 \in WorkDirs : ListInstalled(fs, c1) = ListInstalled(fs, c2)
    /\ (/\ last.op \in Installs
        /\ last.err = "none"
        /\ ~last.opts.DryRun
        /\ last.opts.Dest = Empty
        /\ FoundOf(last).Package.Destination = Empty) =>
           \A cwd \in WorkDirs :
               /\ EntriesNamed(ListInstalled(fs, cwd), last.name) # {}
               /\ Remove(fs, now, cwd, last.name, FALSE, NoFault).err = "none"

----------------------------------------------------------------------------
(* C19. *)

\* The tags a listing asked for.
RequestedTags(opts) == { opts.Tags[k] : k \in 1..Len(opts.Tags) }

\* C19: ListPackages returns, in repository order and then manifest order,
\* exactly the packages of the repositories that answered whose type is the
\* requested one (when one is requested) and that carry at least one of the
\* requested tags (when tags are requested).
C19_ListFiltering ==
    (last.op = "ListPackages" /\ ~last.regFail) =>
        LET Wanted(pkg) ==
                /\ last.opts.Type # "" => pkg.Type = last.opts.Type
                /\ RequestedTags(last.opts) # {} =>
                       pkg.Tags \cap RequestedTags(last.opts) # {}
        IN  /\ last.err = "none"
            /\ last.pkgs = SelectSeq(AnsweredManifests, Wanted)

\* C19 happens: a listing by type and by two tags kept a package that carries
\* only one of the two, and left another package out.
C19_Witness ==
    /\ last.op = "ListPackages"
    /\ last.err = "none"
    /\ last.opts.Type # ""
    /\ Cardinality(RequestedTags(last.opts)) = 2
    /\ \E k \in 1..Len(last.pkgs) :
           Cardinality(last.pkgs[k].Tags \cap RequestedTags(last.opts)) = 1
    /\ Len(last.pkgs) < Len(AnsweredManifests)

----------------------------------------------------------------------------
(* C20. *)

\* C20: findProjectRoot, given the working directory, returns the nearest
\* directory from there up to the filesystem root that holds a marker file; it
\* returns the not-found error exactly when none of them holds one; and it
\* ends after looking at no more directories than lie on the way to the
\* filesystem root.
C20_ProjectLocator ==
    (last.op = "findProjectRoot" /\ last.env.osFail # "getwd") =>
        /\ last.err \in {"none", "notfound"}
        /\ last.err = "notfound" <=> \A d \in Ancestors(last.cwd) : ~HasMarker(fs, d)
        /\ last.err = "none" => last.dir = NearestMarked(fs, last.cwd)
        /\ last.steps <= Len(last.cwd) + 1

\* C20 happens: the working directory is MaxDirDepth deep and holds no marker,
\* two directories above it do, and the nearer one is returned.
C20_Witness ==
    /\ last.op = "findProjectRoot"
    /\ last.err = "none"
    /\ Len(last.cwd) = MaxDirDepth
    /\ 0 < Len(last.dir)
    /\ Len(last.dir) < Len(last.cwd)
    /\ \E d \in Ancestors(last.dir) : d # last.dir /\ HasMarker(fs, d)
    /\ last.steps = Len(last.cwd) - Len(last.dir) + 1

----------------------------------------------------------------------------
(* C21. *)

\* The number of directory components of a path.
DirComponents(path) == Cardinality({ i \in 1..Len(path) : path[i] = "/" })

\* The directories the repository of discovery c holds at most MaxDepth levels
\* beneath the directory the discovery was asked about, that directory among
\* them.
DirsWithinDepth(c) ==
    { d \in DOMAIN RemoteDirs[c.found.MetaURL] :
          IsPrefix(c.dir, d) /\ DirComponents(d) <= DirComponents(c.dir) + MaxDepth }

\* C21: the directory-listing walk ends, on a tree deeper than the limit too;
\* it asks for the templates directory first and then only for directories at
\* most three levels beneath it, for none of them twice, so for no more
\* directories than there are within that depth; and no path it returns has
\* more than three directory components.
C21_DepthBounded ==
    last.op = "DiscoverTemplateFiles" =>
        /\ \A i \in 1..Len(last.listed) :
               /\ IsPrefix(last.dir, last.listed[i])
               /\ DirComponents(last.listed[i]) <= DirComponents(last.dir) + MaxDepth
               /\ \A j \in 1..Len(last.listed) : last.listed[i] = last.listed[j] => i = j
        /\ Len(last.listed) > 0 => last.listed[1] = last.dir
        /\ last.dir \in DOMAIN RemoteDirs[last.found.MetaURL] =>
               Len(last.listed) <= Cardinality(DirsWithinDepth(last))
        /\ last.strategy = "api" =>
               \A i \in 1..Len(last.files) : DirComponents(last.files[i]) <= MaxDepth

\* C21 happens: the walk of a tree that goes deeper than the limit returned a
\* template three directories down and asked for every directory within the
\* limit, while the repository holds deeper ones.
C21_Witness ==
    /\ last.op = "DiscoverTemplateFiles"
    /\ last.strategy = "api"
    /\ last.failed = 0
    /\ \E i \in 1..Len(last.files) : DirComponents(last.files[i]) = MaxDepth
    /\ { last.listed[i] : i \in 1..Len(last.listed) } = DirsWithinDepth(last)
    /\ \E d \in DOMAIN RemoteDirs[last.found.MetaURL] :
           IsPrefix(last.dir, d) /\ d \notin DirsWithinDepth(last)

----------------------------------------------------------------------------
(* C22. *)

\* The meta URL has the form https://raw.githubusercontent.com/<owner>/<repo>/<branch>/meta.yaml.
RawContentForm(url) ==
    /\ Len(UrlParts[url]) = 7
    /\ UrlParts[url][1] = <<"https:">>
    /\ UrlParts[url][3] = <<"raw.githubusercontent.com">>
    /\ UrlParts[url][7] = <<"meta.yaml">>

\* C22: for a repository whose meta URL has the raw.githubusercontent.com form,
\* DiscoverTemplateFiles asks the listing API for the templates directory of
\* <owner>/<repo> first, and sends probes only if that listing failed or
\* returned nothing.
C22_ListingFirst ==
    last.op = "DiscoverTemplateFiles" /\ RawContentForm(last.found.MetaURL) =>
        /\ Len(last.listed) >= 1
        /\ last.listed[1] = last.dir
        /\ last.probes > 0 => last.strategy # "api"

\* The case C22 is about: a discovery in a repository of that form which has
\* the directory asked about.
C22_Case ==
    /\ last.op = "DiscoverTemplateFiles"
    /\ RawContentForm(last.found.MetaURL)
    /\ last.dir \in DOMAIN RemoteDirs[last.found.MetaURL]
    /\ last.listed = <<>>
    /\ last.probes > 0

----------------------------------------------------------------------------
(* C23. *)

\* The manifest requests of the latest call, in order.
ManifestRequests == Tail(last.requests)

\* The order of the requests of FindPackage: one request for the index, then
\* one manifest request per entry of the index in the order of the entries,
\* up to the entry the package is found in and no further; no manifest request
\* when the index request fails.
RequestOrder ==
    /\ Len(last.requests) >= 1
    /\ last.requests[1] = DefaultRegistryURL
    /\ \A i \in 2..Len(last.requests) : last.requests[i] # DefaultRegistryURL
    /\ Len(ManifestRequests) <= Len(registry)
    /\ \A i \in 1..Len(ManifestRequests) : ManifestRequests[i] = registry[i]
    /\ last.err = "registry" <=> last.regFail
    /\ last.err = "registry" => ManifestRequests = <<>>
    /\ last.err = "none" => Len(ManifestRequests) = last.repo
    /\ last.err = "notfound" => Len(ManifestRequests) = Len(registry)

\* C23 as stated: the order above, and no URL is requested twice.
C23_RequestProtocolNoRepeat ==
    last.op = "FindPackage" =>
        /\ RequestOrder
        /\ \A i, j \in 1..Len(last.requests) :
               last.requests[i] = last.requests[j] => i = j

\* C23, amended: the order above, and a manifest URL is requested no more
\* often than the index lists it up to the entry of the match, so never twice
\* when the entries of the index are distinct.
C23_RequestProtocol ==
    last.op = "FindPackage" =>
        /\ RequestOrder
        /\ \A u \in URLs :
               Cardinality({ i \in 1..Len(ManifestRequests) : ManifestRequests[i] = u })
                   <= Cardinality({ i \in 1..Len(registry) : registry[i] = u })
        /\ (\A i, j \in 1..Len(registry) : registry[i] = registry[j] => i = j) =>
               \A i, j \in 1..Len(last.requests) :
                   last.requests[i] = last.requests[j] => i = j

\* C23 happens: the package was found in the second of three distinct
\* repositories, the first one having failed; two manifest requests were made
\* and the third repository was not asked.
C23_Witness ==
    /\ last.op = "FindPackage"
    /\ last.err = "none"
    /\ Len(registry) = 3
    /\ \A i, j \in 1..3 : registry[i] = registry[j] => i = j
    /\ last.repo = 2
    /\ registry[1] \in last.failed
    /\ last.requests = <<DefaultRegistryURL, registry[1], registry[2]>>

----------------------------------------------------------------------------
(* C24. *)

\* What InstallWithSimpleProgress returns for the input of the call in c, made
\* in the filesystem f at time t.
ProgressOf(f, t, c) ==
    InstallWithSimpleProgress(f, t, registry, c.cwd, c.arg, c.opts, c.env)

\* C24: for the same package spec, options, filesystem and responses of the
\* registry and the hosts, InstallWithSimpleProgress and Install both succeed
\* or both fail, and leave the same filesystem.
C24_FaithfulWrapper ==
    [][last'.op = "Install" =>
          /\ (ProgressOf(fs, now, last').err = "none") <=> (last'.err = "none")
          /\ ProgressOf(fs, now, last').fs = fs']_vars

\* The case C24 is about: an Install of a package that is found, for which
\* the two paths take their steps in a different order.
C24_Case ==
    /\ last.op = "Install"
    /\ last.err = "discover"
    /\ ~last.opts.DryRun
    /\ IsDir(fs, last.dest)

----------------------------------------------------------------------------
(* C25. *)

\* What Install returns when the call in c is made again in the filesystem f.
AgainOf(f, t, c) == Install(f, t, registry, c.cwd, c.arg, c.opts, c.env)

\* C25: an Install that is not a dry run and fails because the discovery
\* yields no files leaves the filesystem as it was, and the same Install made
\* again without Force is not rejected by the overwrite guard.
C25_FailedDiscoveryLeavesNothing ==
    [][last'.op = "Install" /\ last'.err = "discover" /\ ~last'.opts.DryRun =>
          /\ fs' = fs
          /\ ~last'.opts.Force => AgainOf(fs', now', last').err # "exists"]_vars

\* The case C25 is about: an Install without Force and not a dry run failed at
\* the discovery.
C25_Case ==
    /\ last.op = "Install"
    /\ last.err = "discover"
    /\ ~last.opts.DryRun
    /\ ~last.opts.Force

----------------------------------------------------------------------------
(* C26. *)

\* C26: after a Remove that succeeded, with a backup or without, ListInstalled
\* has no entry with the name removed, and the same Remove made again fails
\* with the not-installed error.
C26_RemovedFromInstalledSet ==
    last.op = "Remove" /\ last.err = "none" =>
        /\ EntriesNamed(ListInstalled(fs, last.cwd), last.arg) = {}
        /\ Remove(fs, now, last.cwd, last.arg, last.backup, NoFault).err = "notinstalled"

\* The case C26 is about: a Remove with a backup succeeded for a package that
\* had a readable record.
C26_Case ==
    /\ last.op = "Remove"
    /\ last.err = "none"
    /\ last.backup
    /\ \E p \in DOMAIN fs : Loadable(fs, p) /\ fs[p].name = last.arg

----------------------------------------------------------------------------
(* C27. *)

\* The directory of an installed package, given the path of its meta.yaml,
\* with everything beneath it.
FilesOfEntry(f, metaPath) == {Parent(metaPath)} \cup Under(f, Parent(metaPath))

\* C27: Remove(name, backup) leaves the files and the record of every
\* installed package with another name as they were, those packages are
\* still listed, and when no package named name is installed nothing on disk
\* changes.
C27_RemoveTouchesOnePackage ==
    [][last'.op = "Remove" =>
          LET before == ListInstalled(fs, last'.cwd)
              after  == ListInstalled(fs', last'.cwd)
              others == DOMAIN before \ EntriesNamed(before, last'.arg)
          IN  /\ \A m \in others :
                     /\ \A q \in FilesOfEntry(fs, m) : q \in DOMAIN fs' /\ fs'[q] = fs[q]
                     /\ m \in DOMAIN after /\ after[m] = before[m]
              /\ EntriesNamed(before, last'.arg) = {} => fs' = fs]_vars

\* The case C27 is about: a Remove succeeded for a name no installed package
\* has, while packages with other names were installed.
C27_Case ==
    /\ last.op = "Remove"
    /\ last.err = "none"
    /\ last.arg = <<"n">>

----------------------------------------------------------------------------
(* C28. *)

\* C28: Install ends by returning, with success or with an error, whatever
\* the spec string and the registry hold; it does not end the program with
\* an index out of range while it builds the template context.
C28_InstallReturns ==
    last.op = "Install" => last.err # "panic"

\* The case C28 is about: Install was given a name without a "/" that a
\* repository of the registry lists, in a project whose module is detected.
C28_Case ==
    /\ last.op = "Install"
    /\ Len(Split(last.name, "/")) < 2
    /\ FindPackage(registry, last.name, last.env).err = "none"
    /\ ~last.env.modFail

----------------------------------------------------------------------------
(* C29. *)

\* The regular files at or beneath a directory.
RegularFiles(f, dir) == { p \in Under(f, dir) : IsFile(f, p) }

\* C29: an Install into a destination that did not exist, not a dry run, that
\* succeeds with N discovered templates leaves N rendered files and one
\* meta.yaml, at the root of the destination; no two templates map to one
\* output path and no template maps to the path of the meta.yaml.
C29_OutputPathsDistinct ==
    [][last'.op = "Install" /\ last'.err = "none" /\ ~last'.opts.DryRun
          /\ ~Exists(fs, last'.dest) =>
          LET metaPath == last'.dest \o <<MetaYaml>>
              files    == RegularFiles(fs', last'.dest)
          IN  /\ metaPath \in files /\ fs'[metaPath].form = "meta"
              /\ Cardinality(files \ {metaPath}) = last'.n
              /\ \A p \in files \ {metaPath} : fs'[p].form = "rendered"
              /\ \A i, j \in 1..Len(last'.reported) :
                     last'.reported[i] = last'.reported[j] => i = j
              /\ \A i \in 1..Len(last'.reported) : last'.reported[i] # metaPath]_vars

\* The case C29 is about: a successful Install of several templates into a
\* fresh destination after which fewer files are there than templates were
\* discovered.
C29_Case ==
    /\ last.op = "Install"
    /\ last.err = "none"
    /\ ~last.opts.DryRun
    /\ last.n = 3
    /\ Cardinality(RegularFiles(fs, last.dest)) = 2

----------------------------------------------------------------------------
(* C30. *)

\* The project root the install of call c ran in.
RootOf(f, c) == findProjectRoot(f, c.cwd, NoFault).dir

\* C30: after an Install that succeeded and was not a dry run, Remove of the
\* name it installed, made from the project root with a backup or without,
\* does not fail with the not-installed error, whichever of options.Dest, the
\* declared destination and the default path the destination came from.
C30_InstalledIsRemovable ==
    last.op = "Install" /\ last.err = "none" /\ ~last.opts.DryRun =>
        \A backup \in BOOLEAN :
            Remove(fs, now, RootOf(fs, last), last.name, backup, NoFault).err # "notinstalled"

\* The case C30 is about: a successful Install whose destination came from
\* the destination the package declares.
C30_Case ==
    /\ last.op = "Install"
    /\ last.err = "none"
    /\ ~last.opts.DryRun
    /\ last.opts.Dest = Empty
    /\ FindPackage(registry, last.name, last.env).Package.Destination # Empty
    /\ IsFile(fs, last.dest \o <<MetaYaml>>)

====
